---- MODULE Spec2Model ----
(***************************************************************************)
(* Model of the AI book generator: the persisted project document, the     *)
(* continuity ledger engine, the generation stages of the engine and the   *)
(* storage operations (user edits, rewind).                                *)
(*                                                                         *)
(* The repository holds two revisions of the storage module                *)
(* (src/lib/storage.js, imported by src/server.js, and src/unnamed/part_000)*)
(* and two revisions of the engine (src/lib/prompts.js lines 48-685 and    *)
(* lines 687-1134).  The deployed pair is fixed at construction and kept   *)
(* in the variable build.                                                  *)
(***************************************************************************)
EXTENDS Naturals, Integers, Sequences, FiniteSets, TLC

VARIABLES
    build,      \* [storage, engine]: which revisions are deployed
    project,    \* the persisted project row (what getProject returns)
    last,       \* the operation that completed last, its argument and outcome
    prev,       \* the rewind that completed just before last, if one did
    ops         \* number of operations completed so far

vars == <<build, project, last, prev, ops>>

(***************************************************************************)
(* Bounds and program constants                                            *)
(***************************************************************************)

\* number of operations in a run
MaxOps == 4

\* trimmed userText must be longer than this for approved = true
ApprovalThreshold == 50

\* normalizeInputs: totalChapters when none (or none usable) is given
DefaultTotalChapters == 12

StorageRevs == {"storage_js", "part_000"}
EngineRevs  == {"engine_1", "engine_2"}

(***************************************************************************)
(* Values                                                                  *)
(***************************************************************************)

\* A JS object used as a name -> description map, as a function on its keys.
EmptyMap == [k \in {} |-> ""]

\* an overlay in which the value already held is kept
Overlay_baseWins(base, patch) ==
    [k \in (DOMAIN base) \cup (DOMAIN patch) |->
        IF k \in DOMAIN base THEN base[k] ELSE patch[k]]

\* {...base, ...patch}
Overlay(base, patch) ==
    [k \in (DOMAIN base) \cup (DOMAIN patch) |->
        IF k \in DOMAIN patch THEN patch[k] ELSE base[k]]

\* Array.from(new Set(s)): first occurrences, in order
RECURSIVE Dedup(_)
Dedup(s) ==
    IF s = <<>> THEN <<>>
    ELSE LET init == Dedup(SubSeq(s, 1, Len(s) - 1))
             x    == s[Len(s)]
         IN  IF \E i \in 1..Len(init) : init[i] = x THEN init ELSE Append(init, x)

NoDuplicates(s) == \A i, j \in 1..Len(s) : i # j => s[i] # s[j]

\* A text is pad whitespace characters around body non-whitespace characters.
NoText == [pad |-> 0, body |-> 0]
TextLength(t) == t.pad + t.body
Truthy(t) == TextLength(t) > 0
TrimLength(t) == t.body

\* Boolean(userText && userText.trim().length > 50)
ApprovalOf(userText) == Truthy(userText) /\ TrimLength(userText) > ApprovalThreshold

\* chapter.continuity: null, or an object with the fields the code reads
NullContinuity ==
    [present |-> FALSE, charactersState |-> EmptyMap, locationsState |-> EmptyMap,
     timelineEvents |-> <<>>, timeline |-> <<>>, openLoops |-> <<>>, source |-> ""]

\* {}
EmptyObject == [NullContinuity EXCEPT !.present = TRUE]

Facts(cs, ls, events, loops) ==
    [present |-> TRUE, charactersState |-> cs, locationsState |-> ls,
     timelineEvents |-> events, timeline |-> <<>>, openLoops |-> loops, source |-> ""]

\* { ...(c || {}), source: tag }
Tagged(c, tag) == [(IF c.present THEN c ELSE EmptyObject) EXCEPT !.source = tag]

defaultLedger ==
    [charactersState |-> EmptyMap, locationsState |-> EmptyMap,
     timeline |-> <<>>, openLoops |-> <<>>]

(***************************************************************************)
(* Continuity ledger engine                                                *)
(***************************************************************************)

\* src/lib/storage.js mergeLedger(base, patch)
mergeLedger_storage_js(base, patch) ==
    IF ~patch.present THEN base
    ELSE [charactersState |-> Overlay(base.charactersState, patch.charactersState),
          locationsState  |-> Overlay(base.locationsState, patch.locationsState),
          timeline        |-> base.timeline \o patch.timeline,
          openLoops       |-> base.openLoops \o patch.openLoops]

\* src/unnamed/part_000 mergeLedger(ledger, continuity)
mergeLedger_part_000(ledger, continuity) ==
    IF ~continuity.present THEN ledger
    ELSE [charactersState |-> Overlay(ledger.charactersState, continuity.charactersState),
          locationsState  |-> Overlay(ledger.locationsState, continuity.locationsState),
          timeline        |-> ledger.timeline \o continuity.timelineEvents,
          openLoops       |-> Dedup(ledger.openLoops \o continuity.openLoops)]

mergeLedger(rev, ledger, continuity) ==
    IF rev = "storage_js" THEN mergeLedger_storage_js(ledger, continuity)
    ELSE mergeLedger_part_000(ledger, continuity)

\* src/lib/prompts.js mergeContinuityLedger(project, continuity): the ledger
\* it leaves in project.continuityLedger (both engine revisions agree)
mergeContinuityLedger(ledger, continuity) ==
    IF ~continuity.present THEN ledger
    ELSE [charactersState |-> Overlay(ledger.charactersState, continuity.charactersState),
          locationsState  |-> Overlay(ledger.locationsState, continuity.locationsState),
          timeline        |-> ledger.timeline \o continuity.timelineEvents,
          openLoops       |-> Dedup(ledger.openLoops \o continuity.openLoops)]

\* the chapters taken in array order, not sorted
SortByIndex_arrayOrder(chs) == chs

\* [...chapters].sort((a, b) => a.index - b.index): stable, ascending
RECURSIVE SortByIndex(_)
SortByIndex(chs) ==
    IF chs = <<>> THEN <<>>
    ELSE LET init == SortByIndex(SubSeq(chs, 1, Len(chs) - 1))
             c    == chs[Len(chs)]
             n    == Cardinality({i \in 1..Len(init) : init[i].index <= c.index})
         IN  SubSeq(init, 1, n) \o <<c>> \o SubSeq(init, n + 1, Len(init))

\* the loop of rebuildLedgerFromChapters over the sorted chapters
RECURSIVE FoldLedger(_, _, _, _)
FoldLedger(rev, ordered, stopBeforeIndex, ledger) ==
    IF ordered = <<>> THEN ledger
    ELSE IF Head(ordered).index >= stopBeforeIndex THEN ledger
    ELSE FoldLedger(rev, Tail(ordered), stopBeforeIndex,
                    IF Head(ordered).continuity.present
                    THEN mergeLedger(rev, ledger, Head(ordered).continuity)
                    ELSE ledger)

\* an index beyond every chapter: the default stopBeforeIndex = Infinity
RECURSIVE BeyondAll(_)
BeyondAll(chapters) ==
    IF chapters = <<>> THEN 0
    ELSE LET rest == BeyondAll(Tail(chapters))
         IN  IF Head(chapters).index + 1 > rest THEN Head(chapters).index + 1 ELSE rest

\* rebuildLedgerFromChapters(chapters, stopBeforeIndex) of the storage revision rev
rebuildLedgerUpTo(rev, chapters, stopBeforeIndex) ==
    FoldLedger(rev, SortByIndex(chapters), stopBeforeIndex, defaultLedger)

\* rebuildLedgerFromChapters(chapters)
rebuildLedgerFromChapters(rev, chapters) ==
    rebuildLedgerUpTo(rev, chapters, BeyondAll(chapters))

(***************************************************************************)
(* The external model: what callModel + safeJsonParse hand to a stage.     *)
(* ok = FALSE: the call or the parse threw.  The code reads the JSON's     *)
(* fields with fallbacks, so a parsed object may lack any of them.         *)
(***************************************************************************)

NoBrief == [present |-> FALSE, coreConcept |-> ""]
NoBible == [present |-> FALSE]
NoOutline == [present |-> FALSE, chapterSummaries |-> <<>>]

BriefResponses ==
    { [ok |-> FALSE, brief |-> NoBrief, bible |-> NoBible],
      [ok |-> TRUE,  brief |-> NoBrief, bible |-> NoBible],
      [ok |-> TRUE,  brief |-> [present |-> TRUE, coreConcept |-> "model concept"],
                     bible |-> [present |-> TRUE]] }

Summary(i) == [index |-> i, title |-> IF i = 0 THEN "One" ELSE "Two"]
Contract(i) == [index |-> i]

OutlineOf(indices) ==
    [ok |-> TRUE,
     outline |-> [present |-> TRUE,
                  chapterSummaries |-> [n \in 1..Len(indices) |-> Summary(indices[n])]],
     chapterContracts |-> [n \in 1..Len(indices) |-> Contract(indices[n])]]

\* the chapterSummaries index lists the model may return
OutlineIndexLists == { <<0, 1>>, <<1, 0>>, <<0>>, <<0, 0>> }

\* the lists with every index 0..N-1 once, in order
WellFormedIndexLists == { <<0, 1>>, <<0>> }

OutlineResponses ==
    { [ok |-> FALSE, outline |-> NoOutline, chapterContracts |-> <<>>],
      [ok |-> TRUE,  outline |-> NoOutline, chapterContracts |-> <<>>] }
    \cup { OutlineOf(l) : l \in OutlineIndexLists }

FactsA == Facts("Alice" :> "in the cellar", EmptyMap, <<"storm">>, <<"who sent the letter">>)
FactsB == Facts("Alice" :> "on the road", "Inn" :> "burnt down", <<"storm">>,
                <<"who sent the letter", "the missing key">>)

NoResponse == [ok |-> FALSE, title |-> "", prose |-> "", continuity |-> NullContinuity]

ChapterResponses ==
    { NoResponse,
      [ok |-> TRUE, title |-> "", prose |-> "", continuity |-> NullContinuity],
      [ok |-> TRUE, title |-> "", prose |-> "first draft", continuity |-> FactsA],
      [ok |-> TRUE, title |-> "Retitled", prose |-> "second draft", continuity |-> FactsB] }

\* a response that parsed and carries the keys of its stage's schema
BriefWellFormed(r) == r.ok /\ r.brief.present /\ r.bible.present
OutlineWellFormed(r) ==
    /\ r.ok /\ r.outline.present
    /\ \E l \in WellFormedIndexLists : r = OutlineOf(l)
ChapterWellFormed(r) == r.ok /\ r.prose # ""

\* texts a user may save: empty, 50 characters inside whitespace, 51 characters
UserTexts == { NoText, [pad |-> 2, body |-> 50], [pad |-> 0, body |-> 51] }

(***************************************************************************)
(* The project document                                                    *)
(***************************************************************************)

\* normalizeInputs(inputs).totalChapters for a given integer totalChapters:
\* storage.js keeps a positive integer and replaces anything else by the
\* default; part_000 computes Number(totalChapters || 12)
normalizeTotalChapters(rev, total) ==
    IF rev = "storage_js"
    THEN IF total > 0 THEN total ELSE DefaultTotalChapters
    ELSE IF total = 0 THEN DefaultTotalChapters ELSE total

\* createProject(initial)
createProject(coreConcept) ==
    [inputs |-> [coreConcept |-> coreConcept, totalChapters |-> DefaultTotalChapters],
     brief |-> NoBrief, bible |-> NoBible, outline |-> NoOutline,
     chapterContracts |-> <<>>, chapters |-> <<>>,
     continuityLedger |-> defaultLedger]

\* saveProject(project) followed by getProject(id): the whole document is
\* written; undefined brief/bible/outline are stored as null, a missing
\* ledger as the default ledger
saveProject(p) == p

\* what a call returns: the persisted project, how the call ended ("ok",
\* "noop": returned without writing, "error": the model call or the parse
\* threw, "not-found": a not-found error was thrown), the stages that ran,
\* the array position (from 1) of the chapter written, the model's chapter
\* response used
Result(p, outcome, stages, pos, resp) ==
    [p |-> p, outcome |-> outcome, stages |-> stages, pos |-> pos, resp |-> resp]

\* the selection taking the first chapter of the array, drafted or not
FirstUndrafted_alwaysFirst(chapters) == IF chapters = <<>> THEN 0 ELSE 1

\* chapters.find(pred): the first array position, 0 when there is none
FirstUndrafted(chapters) ==
    IF \E n \in 1..Len(chapters) : chapters[n].draftText = ""
    THEN CHOOSE n \in 1..Len(chapters) :
            /\ chapters[n].draftText = ""
            /\ \A m \in 1..(n - 1) : chapters[m].draftText # ""
    ELSE 0

FirstWithIndex(chapters, i) ==
    IF \E n \in 1..Len(chapters) : chapters[n].index = i
    THEN CHOOSE n \in 1..Len(chapters) :
            /\ chapters[n].index = i
            /\ \A m \in 1..(n - 1) : chapters[m].index # i
    ELSE 0

\* new Map(chapters.map(c => [c.index, c])).get(i): the last entry wins
LastWithIndex(chapters, i) ==
    IF \E n \in 1..Len(chapters) : chapters[n].index = i
    THEN CHOOSE n \in 1..Len(chapters) :
            /\ chapters[n].index = i
            /\ \A m \in (n + 1)..Len(chapters) : chapters[m].index # i
    ELSE 0

(***************************************************************************)
(* Generation stages (src/lib/prompts.js)                                  *)
(***************************************************************************)

\* generateBookBriefAndBible storing the brief and no bible
generateBookBriefAndBible_dropsBible(p, r) ==
    IF ~r.ok THEN Result(p, "error", <<"brief">>, 0, NoResponse)
    ELSE Result(saveProject([p EXCEPT !.brief = r.brief, !.bible = NoBible]),
                "ok", <<"brief">>, 0, NoResponse)

\* generateBookBriefAndBible taking the brief's core concept whenever the brief
\* proposes one
generateBookBriefAndBible_overwritesConcept(p, r) ==
    IF ~r.ok THEN Result(p, "error", <<"brief">>, 0, NoResponse)
    ELSE Result(
           saveProject([p EXCEPT
               !.brief = r.brief,
               !.bible = r.bible,
               !.inputs.coreConcept =
                   IF r.brief.present /\ r.brief.coreConcept # ""
                   THEN r.brief.coreConcept ELSE @]),
           "ok", <<"brief">>, 0, NoResponse)

\* generateBookBriefAndBible(projectId) with model response r
generateBookBriefAndBible(p, r) ==
    IF ~r.ok THEN Result(p, "error", <<"brief">>, 0, NoResponse)
    ELSE Result(
           saveProject([p EXCEPT
               !.brief = r.brief,
               !.bible = r.bible,
               !.inputs.coreConcept =
                   IF @ = "" /\ r.brief.present /\ r.brief.coreConcept # ""
                   THEN r.brief.coreConcept ELSE @]),
           "ok", <<"brief">>, 0, NoResponse)

\* the reconciliation keeping, after the listed chapters, the stored chapters
\* the new outline does not list
reconcileChapters_keepsUnlisted(summaries, chapters) ==
    [n \in 1..Len(summaries) |->
        LET cs  == summaries[n]
            at  == LastWithIndex(chapters, cs.index)
        IN  [index     |-> cs.index,
             title     |-> cs.title,
             draftText |-> IF at = 0 THEN "" ELSE chapters[at].draftText,
             userText  |-> IF at = 0 THEN NoText ELSE chapters[at].userText,
             continuity |-> IF at = 0 THEN NullContinuity ELSE chapters[at].continuity,
             approved  |-> IF at = 0 THEN FALSE ELSE chapters[at].approved]]
    \o SelectSeq(chapters,
                 LAMBDA c : \A n \in 1..Len(summaries) : summaries[n].index # c.index)

\* the chapter list generateOutline builds from the new summaries
reconcileChapters(summaries, chapters) ==
    [n \in 1..Len(summaries) |->
        LET cs  == summaries[n]
            at  == LastWithIndex(chapters, cs.index)
        IN  [index     |-> cs.index,
             title     |-> cs.title,
             draftText |-> IF at = 0 THEN "" ELSE chapters[at].draftText,
             userText  |-> IF at = 0 THEN NoText ELSE chapters[at].userText,
             continuity |-> IF at = 0 THEN NullContinuity ELSE chapters[at].continuity,
             approved  |-> IF at = 0 THEN FALSE ELSE chapters[at].approved]]

\* generateOutline without the check for a missing brief or bible
generateOutline_noCascade(b, p, rb, ro) ==
    LET summaries == IF ro.outline.present THEN ro.outline.chapterSummaries ELSE <<>>
        chapters == reconcileChapters(summaries, p.chapters)
    IN  IF ~ro.ok THEN Result(p, "error", <<"outline">>, 0, NoResponse)
        ELSE Result(
               saveProject([p EXCEPT
                   !.outline = ro.outline,
                   !.chapterContracts = ro.chapterContracts,
                   !.chapters = chapters,
                   !.continuityLedger = rebuildLedgerFromChapters(b.storage, chapters)]),
               "ok", <<"outline">>, 0, NoResponse)

\* generateOutline(projectId) with model responses rb (brief stage, when it
\* cascades) and ro
generateOutline(b, p, rb, ro) ==
    LET pre == IF ~p.bible.present \/ ~p.brief.present
               THEN generateBookBriefAndBible(p, rb)
               ELSE Result(p, "ok", <<>>, 0, NoResponse)
        q   == pre.p
        stages == pre.stages \o <<"outline">>
        summaries == IF ro.outline.present THEN ro.outline.chapterSummaries ELSE <<>>
        chapters == reconcileChapters(summaries, q.chapters)
    IN  IF pre.outcome = "error" THEN pre
        ELSE IF ~ro.ok THEN Result(q, "error", stages, 0, NoResponse)
        ELSE Result(
               saveProject([q EXCEPT
                   !.outline = ro.outline,
                   !.chapterContracts = ro.chapterContracts,
                   !.chapters = chapters,
                   !.continuityLedger = rebuildLedgerFromChapters(b.storage, chapters)]),
               "ok", stages, 0, NoResponse)

\* generateNextChapter marking the chapter it drafts as approved
generateNextChapter_approvesDraft(b, p, rb, ro, rc) ==
    LET pre == IF ~p.outline.present
               THEN generateOutline(b, p, rb, ro)
               ELSE Result(p, "ok", <<>>, 0, NoResponse)
        q   == pre.p
        pos == FirstUndrafted(q.chapters)
        stages == pre.stages \o <<"draft">>
        continuity == Tagged(rc.continuity, "model")
        drafted == [q.chapters[pos] EXCEPT
                      !.draftText = rc.prose,
                      !.continuity = continuity,
                      !.approved = TRUE]
    IN  IF pre.outcome = "error" THEN pre
        ELSE IF pos = 0 THEN Result(q, "noop", pre.stages, 0, NoResponse)
        ELSE IF ~rc.ok THEN Result(q, "error", stages, 0, NoResponse)
        ELSE Result(
               saveProject([q EXCEPT
                   !.chapters[pos] = drafted,
                   !.continuityLedger = mergeContinuityLedger(@, continuity)]),
               "ok", stages, pos, rc)

\* generateNextChapter storing an empty draft and an empty continuity object
\* when the model call or the parse fails
generateNextChapter_storesEmptyDraft(b, p, rb, ro, rc) ==
    LET pre == IF ~p.outline.present
               THEN generateOutline(b, p, rb, ro)
               ELSE Result(p, "ok", <<>>, 0, NoResponse)
        q   == pre.p
        pos == FirstUndrafted(q.chapters)
        stages == pre.stages \o <<"draft">>
        next == q.chapters[pos]
        continuity == Tagged(rc.continuity, "model")
        drafted == [next EXCEPT
                      !.draftText = rc.prose,
                      !.continuity = continuity,
                      !.approved = ApprovalOf(next.userText)]
    IN  IF pre.outcome = "error" THEN pre
        ELSE IF pos = 0 THEN Result(q, "noop", pre.stages, 0, NoResponse)
        ELSE Result(
               saveProject([q EXCEPT
                   !.chapters[pos] = drafted,
                   !.continuityLedger = mergeContinuityLedger(@, continuity)]),
               IF rc.ok THEN "ok" ELSE "error", stages, IF rc.ok THEN pos ELSE 0,
               IF rc.ok THEN rc ELSE NoResponse)

\* generateNextChapter(projectId) with model responses rb, ro (when it cascades)
\* and rc
generateNextChapter(b, p, rb, ro, rc) ==
    LET pre == IF ~p.outline.present
               THEN generateOutline(b, p, rb, ro)
               ELSE Result(p, "ok", <<>>, 0, NoResponse)
        q   == pre.p
        pos == FirstUndrafted(q.chapters)
        stages == pre.stages \o <<"draft">>
        next == q.chapters[pos]
        continuity == Tagged(rc.continuity, "model")
        drafted == [next EXCEPT
                      !.title = IF rc.title # "" THEN rc.title ELSE @,
                      !.draftText = rc.prose,
                      !.continuity = continuity,
                      !.approved = ApprovalOf(next.userText)]
    IN  IF pre.outcome = "error" THEN pre
        ELSE IF pos = 0 THEN Result(q, "noop", pre.stages, 0, NoResponse)
        ELSE IF ~rc.ok THEN Result(q, "error", stages, 0, NoResponse)
        ELSE Result(
               saveProject([q EXCEPT
                   !.chapters[pos] = drafted,
                   !.continuityLedger = mergeContinuityLedger(@, continuity)]),
               "ok", stages, pos, rc)

\* regenerateChapter replacing the user's text by the new draft
regenerateChapter_overwritesUserText(b, p, chapterIndex, rc) ==
    LET pos == FirstWithIndex(p.chapters, chapterIndex)
        ch  == p.chapters[pos]
        continuity == Tagged(rc.continuity, "model")
        redrafted == [ch EXCEPT
                        !.draftText = rc.prose,
                        !.userText = NoText,
                        !.continuity = continuity,
                        !.approved = FALSE]
    IN  IF ~p.outline.present \/ pos = 0 THEN Result(p, "not-found", <<>>, 0, NoResponse)
        ELSE IF ~rc.ok THEN Result(p, "error", <<"draft">>, 0, NoResponse)
        ELSE Result(
               saveProject([p EXCEPT
                   !.chapters[pos] = redrafted,
                   !.continuityLedger = mergeContinuityLedger(@, continuity)]),
               "ok", <<"draft">>, pos, rc)

\* regenerateChapter(projectId, chapterIndex) with model response rc
regenerateChapter(b, p, chapterIndex, rc) ==
    LET pos == FirstWithIndex(p.chapters, chapterIndex)
        ch  == p.chapters[pos]
        continuity == Tagged(rc.continuity,
                             IF b.engine = "engine_1" THEN "model-regenerate" ELSE "model")
        redrafted == [ch EXCEPT
                        !.title = IF rc.title # "" THEN rc.title ELSE @,
                        !.draftText = rc.prose,
                        \* engine_2: ch.userText = ch.userText || ""
                        !.userText = IF b.engine = "engine_2" /\ ~Truthy(@)
                                     THEN NoText ELSE @,
                        !.continuity = continuity,
                        !.approved = ApprovalOf(ch.userText)]
        chapters == [p.chapters EXCEPT ![pos] = redrafted]
    IN  IF ~p.outline.present THEN Result(p, "not-found", <<>>, 0, NoResponse)
        ELSE IF pos = 0 THEN Result(p, "not-found", <<>>, 0, NoResponse)
        ELSE IF ~rc.ok THEN Result(p, "error", <<"draft">>, 0, NoResponse)
        ELSE Result(
               saveProject([p EXCEPT
                   !.chapters = chapters,
                   !.continuityLedger =
                       IF b.engine = "engine_1"
                       THEN mergeContinuityLedger(@, continuity)
                       ELSE rebuildLedgerFromChapters(b.storage, chapters)]),
               "ok", <<"draft">>, pos, rc)

(***************************************************************************)
(* Storage operations                                                      *)
(***************************************************************************)

\* what a client may send to save edits: the chapter index, and optionally a
\* text, a continuity object and a ledger (each a sequence of length 0 or 1)
OverrideFacts == [charactersState |-> ("Alice" :> "as the user says")]
UserLedger ==
    [charactersState |-> ("Alice" :> "typed in by hand"), locationsState |-> EmptyMap,
     timeline |-> <<>>, openLoops |-> <<>>]

ChapterIndices == {0, 1}
RewindIndices == {0, 1, 2}

EditRequest(i, t, c, l) ==
    [chapterIndex |-> i, text |-> t, continuity |-> c, continuityLedger |-> l]

EditRequests ==
    UNION { { EditRequest(i, <<t>>, <<>>, <<>>) : t \in UserTexts }
            \cup { EditRequest(i, <<>>, <<OverrideFacts>>, <<>>),
                   EditRequest(i, <<[pad |-> 0, body |-> 51]>>, <<OverrideFacts>>, <<>>),
                   EditRequest(i, <<>>, <<>>, <<UserLedger>>) } : i \in ChapterIndices }

\* the index of a record that has no index field (typeof c.index !== "number")
NoIndex == -1

\* {}: a chapter record with no field set; each field reads as undefined
NoRecord ==
    [index |-> NoIndex, title |-> "", draftText |-> "", userText |-> NoText,
     continuity |-> NullContinuity, approved |-> FALSE]

\* src/lib/storage.js saveUserEdits(id, payload) with
\* payload = { chapterIndex, chapter: { userText?, continuity? }, continuityLedger? };
\* payload.chapterIndex is an array position, and a position just past the
\* end of the array gets a new record: { ...{}, ...chapter }
saveUserEdits_storage_js(p, e) ==
    LET pos == e.chapterIndex + 1
        textPatch == IF e.text = <<>> THEN EmptyMap ELSE [userText |-> e.text[1]]
        contPatch == IF e.continuity = <<>> THEN EmptyMap
                     ELSE [continuity |-> Overlay(EmptyObject, e.continuity[1])]
        chapter  == Overlay(textPatch, contPatch)
        chapters == IF DOMAIN chapter = {} THEN p.chapters
                    ELSE IF pos <= Len(p.chapters)
                    THEN [p.chapters EXCEPT ![pos] = Overlay(@, chapter)]
                    ELSE Append(p.chapters, Overlay(NoRecord, chapter))
        ledger   == IF e.continuityLedger # <<>> THEN e.continuityLedger[1]
                    ELSE rebuildLedgerFromChapters("storage_js", chapters)
    IN  Result([p EXCEPT !.chapters = chapters, !.continuityLedger = ledger],
               "ok", <<>>, IF DOMAIN chapter = {} THEN 0 ELSE pos, NoResponse)

\* src/unnamed/part_000 saveUserEdits(id, chapterIndex, { text, continuityOverride })
saveUserEdits_part_000(p, e) ==
    LET pos == FirstWithIndex(p.chapters, e.chapterIndex)
        ch  == p.chapters[pos]
        userText == IF e.text = <<>> THEN ch.userText ELSE e.text[1]
        continuity ==
            IF e.continuity = <<>> THEN ch.continuity
            ELSE [Overlay(IF ch.continuity.present THEN ch.continuity ELSE EmptyObject,
                          e.continuity[1]) EXCEPT !.source = "user"]
        edited == [ch EXCEPT !.userText = userText,
                             !.continuity = continuity,
                             !.approved = ApprovalOf(userText)]
    IN  IF pos = 0 THEN Result(p, "not-found", <<>>, 0, NoResponse)
        ELSE Result(saveProject([p EXCEPT !.chapters[pos] = edited]),
                    "ok", <<>>, pos, NoResponse)

saveUserEdits(b, p, e) ==
    IF b.storage = "storage_js" THEN saveUserEdits_storage_js(p, e)
    ELSE saveUserEdits_part_000(p, e)

\* the filter dropping the record with index k only
IndexBelow_exceptThatIndex(records, k) == SelectSeq(records, LAMBDA c : c.index # k)

IndexBelow(records, k) == SelectSeq(records, LAMBDA c : c.index < k)

\* src/lib/storage.js clearAndRewindFromChapter(id, chapterIndex)
clearAndRewindFromChapter_storage_js(p, chapterIndex) ==
    LET keptChapters  == IndexBelow(p.chapters, chapterIndex)
        keptContracts == IndexBelow(p.chapterContracts, chapterIndex)
    IN  Result([p EXCEPT
                  !.chapterContracts = keptContracts,
                  !.chapters = keptChapters,
                  !.continuityLedger = rebuildLedgerFromChapters("storage_js", keptChapters)],
               "ok", <<>>, 0, NoResponse)

\* src/unnamed/part_000 clearAndRewindFromChapter(id, chapterIndex)
clearAndRewindFromChapter_part_000(p, chapterIndex) ==
    LET chapters ==
            [n \in 1..Len(p.chapters) |->
                IF p.chapters[n].index >= chapterIndex
                THEN [p.chapters[n] EXCEPT !.draftText = "", !.userText = NoText,
                                           !.continuity = NullContinuity,
                                           !.approved = FALSE]
                ELSE p.chapters[n]]
    IN  Result(saveProject([p EXCEPT
                  !.chapters = chapters,
                  !.continuityLedger = rebuildLedgerUpTo("part_000", chapters, chapterIndex)]),
               "ok", <<>>, 0, NoResponse)

clearAndRewindFromChapter(b, p, chapterIndex) ==
    IF b.storage = "storage_js" THEN clearAndRewindFromChapter_storage_js(p, chapterIndex)
    ELSE clearAndRewindFromChapter_part_000(p, chapterIndex)

(***************************************************************************)
(* The state machine: one request at a time, each handler run to its end   *)
(***************************************************************************)

NoNote == [present |-> FALSE, drafts |-> 0, sequential |-> FALSE, wellFormed |-> FALSE,
           cold |-> FALSE]

NoOp == [op |-> "none", arg |-> 0, outcome |-> "ok", stages |-> <<>>, pos |-> 0,
         resp |-> NoResponse, note |-> NoNote]

NoRewind == [op |-> "none", arg |-> 0, note |-> NoNote]

\* the number of chapters with index >= k that hold a draft
DraftsFrom(chapters, k) ==
    Cardinality({n \in 1..Len(chapters) :
                    chapters[n].index >= k /\ chapters[n].draftText # ""})

\* the outline lists chapters 0..N-1, the stored chapters are those, and
\* exactly chapters 0..j hold a draft, for some j
SequentiallyDrafted(p) ==
    /\ p.outline.present
    /\ \E l \in WellFormedIndexLists :
          /\ Len(p.outline.chapterSummaries) = Len(l)
          /\ Len(p.chapters) = Len(l)
          /\ \A n \in 1..Len(l) :
                /\ p.outline.chapterSummaries[n].index = l[n]
                /\ p.chapters[n].index = l[n]
    /\ \E j \in 1..Len(p.chapters) :
          \A n \in 1..Len(p.chapters) : (p.chapters[n].draftText # "") <=> (n <= j)

\* what is remembered of the state a rewind to k starts from
RewindNote(p, k) ==
    [present    |-> FirstWithIndex(p.chapters, k) # 0,
     drafts     |-> DraftsFrom(p.chapters, k),
     sequential |-> SequentiallyDrafted(p),
     wellFormed |-> FALSE,
     cold       |-> FALSE]

\* whether every model response the call consumed was well formed, and
\* whether the call started on a project with no brief, no bible and no outline
ResponsesNote(p, wellFormed) ==
    [NoNote EXCEPT !.wellFormed = wellFormed,
                   !.cold = ~p.brief.present /\ ~p.bible.present /\ ~p.outline.present]

Complete(name, arg, res, note) ==
    /\ ops < MaxOps
    /\ project' = res.p
    /\ last' = [op |-> name, arg |-> arg, outcome |-> res.outcome, stages |-> res.stages,
                pos |-> res.pos, resp |-> res.resp, note |-> note]
    /\ prev' = IF last.op = "rewind"
               THEN [op |-> last.op, arg |-> last.arg, note |-> last.note]
               ELSE NoRewind
    /\ ops' = ops + 1
    /\ UNCHANGED build

Init ==
    /\ build \in [storage : StorageRevs, engine : EngineRevs]
    /\ project = createProject("")
    /\ last = NoOp
    /\ prev = NoRewind
    /\ ops = 0

\* the responses of the stages a call reaches: a stage that does not run
\* makes no model call
NeedsBrief(p) == ~p.bible.present \/ ~p.brief.present
NeedsOutline(p) == ~p.outline.present
BriefFor(p) ==
    IF NeedsBrief(p) THEN BriefResponses ELSE {CHOOSE r \in BriefResponses : ~r.ok}
OutlineFor(p) ==
    IF NeedsOutline(p) THEN OutlineResponses ELSE {CHOOSE r \in OutlineResponses : ~r.ok}

\* POST /api/projects/:id/brief-bible
BriefBible ==
    \E rb \in BriefResponses :
        Complete("brief", 0, generateBookBriefAndBible(project, rb),
                 ResponsesNote(project, BriefWellFormed(rb)))

\* POST /api/projects/:id/outline
Outline ==
    \E rb \in BriefFor(project), ro \in OutlineResponses :
        Complete("outline", 0, generateOutline(build, project, rb, ro),
                 ResponsesNote(project,
                               /\ NeedsBrief(project) => BriefWellFormed(rb)
                               /\ OutlineWellFormed(ro)))

\* POST /api/projects/:id/chapters/next
NextChapter ==
    \E rb \in BriefFor(project), ro \in OutlineFor(project), rc \in ChapterResponses :
        Complete("next", 0, generateNextChapter(build, project, rb, ro, rc),
                 ResponsesNote(project,
                               /\ NeedsOutline(project) /\ NeedsBrief(project)
                                    => BriefWellFormed(rb)
                               /\ NeedsOutline(project) => OutlineWellFormed(ro)
                               /\ ChapterWellFormed(rc)))

\* POST /api/projects/:id/chapters/:index/regenerate
Regenerate ==
    \E i \in ChapterIndices, rc \in ChapterResponses :
        Complete("regenerate", i, regenerateChapter(build, project, i, rc),
                 ResponsesNote(project, ChapterWellFormed(rc)))

\* PUT /api/projects/:id/chapters/edits
SaveEdits ==
    \E e \in EditRequests :
        /\ build.storage = "storage_js" => e.chapterIndex < Len(project.chapters)
        /\ build.storage = "part_000" => e.continuityLedger = <<>>
        /\ Complete("edits", e.chapterIndex, saveUserEdits(build, project, e), NoNote)

\* POST /api/projects/:id/chapters/rewind
Rewind ==
    \E k \in RewindIndices :
        Complete("rewind", k, clearAndRewindFromChapter(build, project, k),
                 RewindNote(project, k))

Next ==
    \/ BriefBible
    \/ Outline
    \/ NextChapter
    \/ Regenerate
    \/ SaveEdits
    \/ Rewind

Spec == Init /\ [][Next]_vars

(***************************************************************************)
(* Properties                                                              *)
(***************************************************************************)

Chapters == project.chapters
Positions == 1..Len(project.chapters)

\* C1 - Rewind prefix invariant: after clearAndRewindFromChapter(project, k)
\* completes, no stored chapter and no stored contract has index >= k, and the
\* stored ledger is rebuildLedgerFromChapters of the chapters with index < k.
C1_RewindPrefix ==
    (last.op = "rewind" /\ last.outcome = "ok") =>
        /\ \A n \in Positions : Chapters[n].index < last.arg
        /\ \A n \in 1..Len(project.chapterContracts) :
              project.chapterContracts[n].index < last.arg
        /\ project.continuityLedger =
              rebuildLedgerFromChapters(build.storage, IndexBelow(Chapters, last.arg))

\* C2 - Redraft after rewind: with the outline listing chapters 0..N-1 and
\* chapters 0..j drafted, after a rewind to k <= j the next generateNextChapter
\* call that does not throw drafts chapter k: chapter k exists with non-empty
\* draftText and the continuity the model returned.  (storage.js, well-formed
\* model output.)
C2_RedraftAfterRewind ==
    ( /\ build.storage = "storage_js"
      /\ last.op = "next" /\ last.outcome # "error" /\ last.note.wellFormed
      /\ prev.op = "rewind" /\ prev.note.sequential /\ prev.note.drafts > 0 )
    => /\ last.outcome = "ok"
       /\ \E n \in Positions :
            /\ Chapters[n].index = prev.arg
            /\ Chapters[n].draftText # ""
            /\ Chapters[n].draftText = last.resp.prose
            /\ Chapters[n].continuity = Tagged(last.resp.continuity, "model")

\* C3 - Rewind-then-regenerate: for a chapter index N present in the project,
\* clearAndRewindFromChapter(project, N) followed by regenerateChapter(project, N)
\* succeeds (when the model call does); afterwards chapter N holds the new draft
\* and the ledger is the ledger rebuilt from chapters 0..N-1 merged with
\* chapter N's new continuity.
C3_RewindThenRegenerate ==
    ( /\ last.op = "regenerate" /\ last.outcome # "error"
      /\ prev.op = "rewind" /\ prev.arg = last.arg /\ prev.note.present )
    => /\ last.outcome = "ok"
       /\ Chapters[last.pos].index = last.arg
       /\ Chapters[last.pos].draftText = last.resp.prose
       /\ project.continuityLedger =
            mergeContinuityLedger(
                rebuildLedgerFromChapters(build.storage, IndexBelow(Chapters, last.arg)),
                Chapters[last.pos].continuity)

\* a character state, location state, timeline event or open loop that the
\* ledger holds and the chapter at position n asserts
AssertsHeldFact(n) ==
    LET c == Chapters[n].continuity
        l == project.continuityLedger
    IN  /\ c.present
        /\ \/ \E k \in DOMAIN c.charactersState :
                k \in DOMAIN l.charactersState /\ l.charactersState[k] = c.charactersState[k]
           \/ \E k \in DOMAIN c.locationsState :
                k \in DOMAIN l.locationsState /\ l.locationsState[k] = c.locationsState[k]
           \/ \E i \in 1..Len(c.timelineEvents), j \in 1..Len(l.timeline) :
                l.timeline[j] = c.timelineEvents[i]
           \/ \E i \in 1..Len(c.openLoops), j \in 1..Len(l.openLoops) :
                l.openLoops[j] = c.openLoops[i]

\* C4 - Regeneration rewinds: when the regenerate route completes for chapter
\* N, no chapter with index > N holds draft text or continuity from before the
\* request, and the ledger holds no fact asserted by those chapters.  (Stated
\* for a project whose chapters were drafted in order from a well-formed
\* outline, and a model response with prose.)
C4_RegenerationRewinds ==
    ( /\ last.op = "regenerate" /\ last.outcome = "ok"
      /\ last.note.wellFormed /\ SequentiallyDrafted(project) ) =>
        \A n \in Positions :
            Chapters[n].index > last.arg =>
                /\ Chapters[n].draftText = ""
                /\ ~Chapters[n].continuity.present
                /\ ~AssertsHeldFact(n)

\* C8 - Approval invariant: in every reachable state every chapter has
\* approved = true exactly when its userText, trimmed, is longer than 50
\* characters.
C8_ApprovalInvariant ==
    \A n \in Positions : Chapters[n].approved = ApprovalOf(Chapters[n].userText)

\* C7 - Outline reconciliation preserves progress: when generateOutline runs
\* on a project that already has chapters, every existing chapter whose index
\* also appears in the new chapterSummaries keeps its draftText, userText,
\* continuity and approved fields.  (Stated for the existing chapters that
\* hold draft text, the case the specification names.)
C7_OutlinePreservesProgress ==
    [][ (last'.op = "outline" /\ last'.outcome = "ok" /\ ops' = ops + 1) =>
          \A n \in 1..Len(project.chapters) :
              ( /\ project.chapters[n].draftText # ""
                /\ \E m \in 1..Len(project'.chapters) :
                      project'.chapters[m].index = project.chapters[n].index )
              => \E m \in 1..Len(project'.chapters) :
                    /\ project'.chapters[m].index = project.chapters[n].index
                    /\ project'.chapters[m].draftText = project.chapters[n].draftText
                    /\ project'.chapters[m].userText = project.chapters[n].userText
                    /\ project'.chapters[m].continuity = project.chapters[n].continuity
                    /\ project'.chapters[m].approved = project.chapters[n].approved
      ]_vars

\* C9 - regenerateChapter(project, i) does not change the userText of chapter
\* i and changes no field of any other chapter: only the title, draftText,
\* continuity and approved of chapter i may differ afterwards.
C9_RegenerateFrame ==
    [][ (last'.op = "regenerate" /\ ops' = ops + 1) =>
          /\ Len(project'.chapters) = Len(project.chapters)
          /\ \A n \in 1..Len(project.chapters) :
                n # last'.pos => project'.chapters[n] = project.chapters[n]
          /\ last'.outcome = "ok" =>
                /\ last'.pos \in 1..Len(project.chapters)
                /\ project.chapters[last'.pos].index = last'.arg
                /\ project'.chapters[last'.pos].index = last'.arg
                /\ project'.chapters[last'.pos].userText = project.chapters[last'.pos].userText
      ]_vars

\* a regeneration that redrafted a chapter holding a user text, with another
\* drafted chapter beside it
C9_Witness ==
    /\ last.op = "regenerate" /\ last.outcome = "ok" /\ build.engine = "engine_2"
    /\ Truthy(Chapters[last.pos].userText)
    /\ Chapters[last.pos].draftText = "second draft"
    /\ \E n \in Positions : n # last.pos /\ Chapters[n].draftText # ""

StagesInOrder(stages) ==
    \E n \in 1..3 : stages = SubSeq(<<"brief", "outline", "draft">>, 1, n)

FirstChapterDrafted ==
    /\ project.brief.present /\ project.bible.present /\ project.outline.present
    /\ Len(Chapters) >= 1
    /\ Chapters[1].draftText # ""

LedgerContinuities ==
    { NullContinuity, Tagged(NullContinuity, "model"), Tagged(FactsA, "model"),
      Tagged(FactsB, "model"), Tagged(FactsB, "user"),
      Tagged(Facts("Alice" :> "asleep", "Inn" :> "rebuilt", <<"thaw">>,
                   <<"the missing key">>), "model-regenerate") }

ChapterWith(i, continuity) ==
    [index |-> i, title |-> "", draftText |-> "draft", userText |-> NoText,
     continuity |-> continuity, approved |-> FALSE]

\* the stored chapter with the lower (higher) index
LowerChapter ==
    CHOOSE c \in {Chapters[n] : n \in Positions} :
        \A n \in Positions : c.index <= Chapters[n].index
HigherChapter ==
    CHOOSE c \in {Chapters[n] : n \in Positions} :
        \A n \in Positions : c.index >= Chapters[n].index

InitLedger ==
    /\ build \in [storage : StorageRevs, engine : EngineRevs]
    /\ \E a, b \in LedgerContinuities, i \in {0, 1}, flip \in BOOLEAN :
          project = [createProject("") EXCEPT
                        !.chapters = IF flip
                                     THEN <<ChapterWith(i + 1, b), ChapterWith(i, a)>>
                                     ELSE <<ChapterWith(i, a), ChapterWith(i + 1, b)>>]
    /\ last = NoOp
    /\ prev = NoRewind
    /\ ops = 0

Computed(name, ledger) ==
    /\ ops < MaxOps
    /\ project' = [project EXCEPT !.continuityLedger = ledger]
    /\ last' = [NoOp EXCEPT !.op = name]
    /\ ops' = ops + 1
    /\ UNCHANGED <<build, prev>>

\* A merged by the engine as chapter A is drafted, then B as B is drafted
MergeIncrementally ==
    Computed("merge",
             mergeContinuityLedger(
                 mergeContinuityLedger(defaultLedger, LowerChapter.continuity),
                 HigherChapter.continuity))

\* the same with the storage module's mergeLedger
MergeInStorage ==
    Computed("merge",
             mergeLedger(build.storage,
                 mergeLedger(build.storage, defaultLedger, LowerChapter.continuity),
                 HigherChapter.continuity))

RebuildFromChapters ==
    Computed("rebuild", rebuildLedgerFromChapters(build.storage, Chapters))

\* one merge: the continuity of the chapter at position n into the ledger held
MergedInto(name, n, ledger) ==
    /\ ops < MaxOps
    /\ project' = [project EXCEPT !.continuityLedger = ledger]
    /\ last' = [NoOp EXCEPT !.op = name, !.pos = n]
    /\ ops' = ops + 1
    /\ UNCHANGED <<build, prev>>

\* mergeContinuityLedger(project, chapter.continuity)
MergeOneInEngine ==
    \E n \in Positions :
        MergedInto("merge-engine", n,
                   mergeContinuityLedger(project.continuityLedger, Chapters[n].continuity))

\* mergeLedger(ledger, chapter.continuity) of the storage module
MergeOneInStorage ==
    \E n \in Positions :
        MergedInto("merge-storage", n,
                   mergeLedger(build.storage, project.continuityLedger,
                               Chapters[n].continuity))

NextLedger ==
    \/ MergeIncrementally
    \/ MergeInStorage
    \/ RebuildFromChapters
    \/ MergeOneInEngine
    \/ MergeOneInStorage

SpecLedger == InitLedger /\ [][NextLedger]_vars

\* C5 - Overwrite-in-state agreement: for chapters A (lower index) and B
\* (higher index) that both assert a state for a character name, the ledger
\* merged incrementally (A then B) and the ledger rebuilt from both chapters
\* hold B's value for that name.
C5_LaterChapterWins ==
    last.op \in {"merge", "rebuild"} =>
        \A name \in (DOMAIN LowerChapter.continuity.charactersState)
                        \cap (DOMAIN HigherChapter.continuity.charactersState) :
            /\ name \in DOMAIN project.continuityLedger.charactersState
            /\ project.continuityLedger.charactersState[name] =
                   HigherChapter.continuity.charactersState[name]

\* a rebuild over B stored before A, the two disagreeing about Alice
C5_Witness ==
    /\ last.op = "rebuild"
    /\ Len(Chapters) = 2
    /\ Chapters[1].index > Chapters[2].index
    /\ "Alice" \in DOMAIN LowerChapter.continuity.charactersState
    /\ "Alice" \in DOMAIN HigherChapter.continuity.charactersState
    /\ LowerChapter.continuity.charactersState["Alice"]
           # HigherChapter.continuity.charactersState["Alice"]
    /\ project.continuityLedger.charactersState["Alice"]
           = HigherChapter.continuity.charactersState["Alice"]

(***************************************************************************)
(* Chapter selection and the derivation of the ledger                      *)
(***************************************************************************)

\* C11 - Next-chapter selection: generateNextChapter drafts the chapter with
\* the smallest index among the chapters whose draftText is empty, whatever the
\* order of the stored chapters array; when the project has an outline and no
\* chapter has empty draftText it makes no model call, writes nothing and
\* returns the project unchanged.
C11_NextSelectsSmallestIndex ==
    [][ (last'.op = "next" /\ ops' = ops + 1) =>
          /\ last'.outcome = "ok" =>
                \A n \in 1..Len(project'.chapters) :
                    ( /\ n # last'.pos
                      /\ project'.chapters[n].index < project'.chapters[last'.pos].index )
                    => project'.chapters[n].draftText # ""
          /\ ( /\ project.outline.present
               /\ \A n \in 1..Len(project.chapters) : project.chapters[n].draftText # "" )
             => /\ last'.outcome = "noop"
                /\ last'.stages = <<>>
                /\ project' = project
      ]_vars

\* C12 - The ledger is derived only: every change to the stored
\* continuityLedger is the merge of one stored chapter's continuity facts into
\* the previous ledger or a rebuild from the stored chapters; no operation
\* stores a ledger supplied by the caller.
C12_LedgerDerivedOnly ==
    [][ project'.continuityLedger # project.continuityLedger =>
          \/ \E n \in 1..Len(project'.chapters) :
                project'.continuityLedger =
                    mergeContinuityLedger(project.continuityLedger,
                                          project'.chapters[n].continuity)
          \/ project'.continuityLedger =
                rebuildLedgerFromChapters(build.storage, project'.chapters)
      ]_vars

\* the chapters have pairwise distinct indices
DistinctIndices(chapters) ==
    \A n, m \in 1..Len(chapters) : n # m => chapters[n].index # chapters[m].index

\* C13 - openLoops is a set: in every reachable state the ledger's openLoops
\* holds no entry twice, whether the ledger came from an incremental merge or
\* from rebuildLedgerFromChapters, including when two chapters assert the same
\* open loop.  (Stated for stored chapters with pairwise distinct indices.)
C13_OpenLoopsIsASet ==
    DistinctIndices(Chapters) => NoDuplicates(project.continuityLedger.openLoops)

\* the timeline events of the chapters, chapter after chapter
RECURSIVE EventsOf(_)
EventsOf(ordered) ==
    IF ordered = <<>> THEN <<>>
    ELSE (IF Head(ordered).continuity.present
          THEN Head(ordered).continuity.timelineEvents ELSE <<>>)
         \o EventsOf(Tail(ordered))

\* C14 - Timeline on rebuild: after an operation that rebuilds the ledger from
\* the stored chapters (outline generation, rewind), the ledger's timeline is
\* the concatenation, in ascending chapter index order, of the chapters'
\* timeline events, duplicates kept.
C14_TimelineOnRebuild ==
    (last.op \in {"outline", "rewind"} /\ last.outcome = "ok") =>
        project.continuityLedger.timeline = EventsOf(SortByIndex(Chapters))

\* the map after is the map before overlaid with the facts' map: the union
\* of the keys, the facts' value for every key of the facts, the value held
\* before for every other key
IsOverlay(after, before, facts) ==
    /\ DOMAIN after = (DOMAIN before) \cup (DOMAIN facts)
    /\ \A k \in DOMAIN facts : after[k] = facts[k]
    /\ \A k \in (DOMAIN before) \ (DOMAIN facts) : after[k] = before[k]

\* C15 - State overlay on merge: merging continuity facts F into ledger L
\* yields charactersState and locationsState whose keys are the union of L's
\* and F's keys, with F's value for every key in F and L's value for every key
\* absent from F; merging absent (null) facts returns L unchanged.
C15_StateOverlayOnMerge ==
    [][ (last'.op \in {"merge-engine", "merge-storage"} /\ ops' = ops + 1) =>
          LET L == project.continuityLedger
              F == project.chapters[last'.pos].continuity
              R == project'.continuityLedger
          IN  IF ~F.present THEN R = L
              ELSE /\ IsOverlay(R.charactersState, L.charactersState, F.charactersState)
                   /\ IsOverlay(R.locationsState, L.locationsState, F.locationsState)
      ]_vars

\* a merge of facts that overwrite Alice's state and say nothing of the Inn,
\* into a ledger that held both
C15_Witness ==
    /\ last.op \in {"merge-engine", "merge-storage"}
    /\ Chapters[last.pos].continuity = Tagged(FactsA, "model")
    /\ ops >= 2
    /\ "Inn" \in DOMAIN project.continuityLedger.locationsState
    /\ project.continuityLedger.charactersState["Alice"] = "in the cellar"

\* the value the ledger holds for name is the one asserted by a stored
\* chapter of the highest index among the chapters that assert name
HighestAsserterWins(field, name) ==
    \E n \in Positions :
        /\ Chapters[n].continuity.present
        /\ name \in DOMAIN Chapters[n].continuity[field]
        /\ \A m \in Positions :
              ( /\ Chapters[m].continuity.present
                /\ name \in DOMAIN Chapters[m].continuity[field] )
              => Chapters[m].index <= Chapters[n].index
        /\ name \in DOMAIN project.continuityLedger[field]
        /\ project.continuityLedger[field][name] = Chapters[n].continuity[field][name]

\* for every name asserted by the continuity of a stored chapter, the ledger
\* holds the value of the highest-index chapter asserting it
LaterChapterWins ==
    \A field \in {"charactersState", "locationsState"} :
        \A n \in Positions :
            Chapters[n].continuity.present =>
                \A name \in DOMAIN Chapters[n].continuity[field] :
                    HighestAsserterWins(field, name)

\* C16 - Later chapter wins, as an invariant: after any sequence of
\* generateNextChapter, regenerateChapter, saveUserEdits, generateOutline and
\* clearAndRewindFromChapter, for every character or location name asserted by
\* the continuity of a stored chapter, the ledger holds the value asserted by
\* the highest-index stored chapter that asserts that name.  (Stated for the
\* regenerateChapter step of such a sequence: the property holds before the
\* step and must hold after it.)
C16_LaterChapterWinsAlways ==
    [][ ( /\ last'.op = "regenerate" /\ ops' = ops + 1
          /\ LaterChapterWins ) => LaterChapterWins'
      ]_vars

(***************************************************************************)
(* The project's inputs: the requests of the main specification and the    *)
(* request that updates the inputs                                          *)
(***************************************************************************)

\* totalChapters values a client may send
TotalChaptersInputs == {-1, 0, 1, 2}

\* updateProjectInputs(id, patch) with patch = { totalChapters }: the inputs
\* are merged, normalised and stored; nothing else of the project is written
updateProjectInputs(b, p, total) ==
    Result([p EXCEPT !.inputs.totalChapters = normalizeTotalChapters(b.storage, total)],
           "ok", <<>>, 0, NoResponse)

\* PUT /api/projects/:id/inputs
UpdateInputs ==
    \E total \in TotalChaptersInputs :
        Complete("inputs", total, updateProjectInputs(build, project, total), NoNote)

NextInputs ==
    \/ Next
    \/ UpdateInputs

SpecInputs == Init /\ [][NextInputs]_vars

\* C17 - Chapter index invariant: in every reachable state, after any sequence
\* of generateOutline, updateProjectInputs, saveUserEdits, chapter generation
\* and rewind, the stored chapters have pairwise distinct non-negative integer
\* indices, all within 0 .. inputs.totalChapters - 1.
C17_ChapterIndexInvariant ==
    /\ DistinctIndices(Chapters)
    /\ \A n \in Positions :
          Chapters[n].index \in 0..(project.inputs.totalChapters - 1)

(***************************************************************************)
(* Destruction of chapters, failures, and the order of the stages          *)
(***************************************************************************)

\* the chapter before holds draft or user text
HoldsText(ch) == ch.draftText # "" \/ Truthy(ch.userText)

\* the record after keeps what the record before held: no field that was
\* non-empty is empty
KeepsContent(before, after) ==
    /\ before.draftText # "" => after.draftText # ""
    /\ Truthy(before.userText) => Truthy(after.userText)
    /\ before.continuity.present => after.continuity.present

\* C18 - Chapters are destroyed only by rewind: no generation operation
\* (generateBookBriefAndBible, generateOutline, generateNextChapter,
\* regenerateChapter) removes a chapter record that holds draft or user text,
\* or resets a chapter's draftText, userText or continuity to empty.  (Stated
\* for stored chapters with pairwise distinct indices.)
C18_OnlyRewindDestroys ==
    [][ ( /\ last'.op \in {"brief", "outline", "next", "regenerate"} /\ ops' = ops + 1
          /\ DistinctIndices(project.chapters) ) =>
          \A n \in 1..Len(project.chapters) :
              /\ HoldsText(project.chapters[n]) =>
                    \E m \in 1..Len(project'.chapters) :
                        project'.chapters[m].index = project.chapters[n].index
              /\ (\E m \in 1..Len(project'.chapters) :
                        project'.chapters[m].index = project.chapters[n].index)
                 => \E m \in 1..Len(project'.chapters) :
                        /\ project'.chapters[m].index = project.chapters[n].index
                        /\ KeepsContent(project.chapters[n], project'.chapters[m])
      ]_vars

\* the project as the stages that ran before the failing one left it: p
\* itself when the failing stage was the first to run, else what the brief
\* stage or the outline stage (with the brief stage before it, when it ran)
\* stored
BeforeFailedStage(b, p, earlier, q) ==
    \/ earlier = <<>> /\ q = p
    \/ \E rb \in BriefResponses :
          LET done == generateBookBriefAndBible(p, rb)
          IN  done.outcome = "ok" /\ done.stages = earlier /\ q = done.p
    \/ \E rb \in BriefResponses, ro \in OutlineResponses :
          LET done == generateOutline(b, p, rb, ro)
          IN  done.outcome = "ok" /\ done.stages = earlier /\ q = done.p

\* C19 - Failure leaves state untouched: when the model call fails or its
\* output cannot be parsed in a generation stage, that stage throws and writes
\* nothing: the persisted brief, bible, outline, contracts, chapters and ledger
\* are exactly those from before that stage began, and no default or empty
\* structure is stored in place of the missing result.
C19_FailureLeavesState ==
    [][ (last'.outcome = "error" /\ ops' = ops + 1) =>
          /\ last'.stages # <<>>
          /\ BeforeFailedStage(build, project,
                               SubSeq(last'.stages, 1, Len(last'.stages) - 1),
                               project')
      ]_vars

\* a chapter draft that failed after the brief and the outline stage of the
\* same call had stored their results: the outline is there and no chapter
\* holds a draft or continuity
C19_Witness ==
    /\ last.op = "next" /\ last.outcome = "error"
    /\ last.stages = <<"brief", "outline", "draft">>
    /\ project.brief.present /\ project.outline.present
    /\ Len(Chapters) = 2
    /\ \A n \in Positions : Chapters[n].draftText = "" /\ ~Chapters[n].continuity.present
    /\ project.continuityLedger = defaultLedger

SomeChapterDrafted == \E n \in Positions : Chapters[n].draftText # ""

\* the request served last ran the outline stage to its end
OutlineJustStored ==
    /\ last.op \in {"outline", "next"}
    /\ last.outcome # "error"
    /\ \E i \in 1..Len(last.stages) : last.stages[i] = "outline"

SaveEditsPastEnd ==
    \E t \in UserTexts :
        /\ build.storage = "storage_js"
        /\ Complete("edits", Len(project.chapters),
                    saveUserEdits(build, project,
                                  EditRequest(Len(project.chapters), <<t>>, <<>>, <<>>)),
                    NoNote)

\* every stored chapter has an index.  A record without one makes the
\* comparator of the sort in rebuildLedgerFromChapters return NaN, and the
\* order of the sorted chapters is then the JavaScript engine's choice: the
\* requests are followed up to the state in which such a record is stored.
EveryChapterIndexed == \A n \in Positions : Chapters[n].index # NoIndex

NextEdits ==
    \/ EveryChapterIndexed /\ Next
    \/ EveryChapterIndexed /\ SaveEditsPastEnd

SpecEdits == Init /\ [][NextEdits]_vars

\* C21 - Missing chapter is an error: regenerateChapter and saveUserEdits
\* called with a chapter index that does not exist in the project fail with a
\* not-found error, create no chapter record and leave the persisted project
\* unchanged; regenerateChapter also fails, without cascading, when the project
\* has no outline.
C21_MissingChapterIsAnError ==
    [][ (last'.op \in {"regenerate", "edits"} /\ ops' = ops + 1) =>
          /\ FirstWithIndex(project.chapters, last'.arg) = 0 =>
                /\ last'.outcome = "not-found"
                /\ Len(project'.chapters) = Len(project.chapters)
                /\ project' = project
          /\ (last'.op = "regenerate" /\ ~project.outline.present) =>
                /\ last'.outcome = "not-found"
                /\ last'.stages = <<>>
                /\ project' = project
      ]_vars

(***************************************************************************)
(* Approval, outline results and the brief stage                           *)
(***************************************************************************)

\* C22 (as claimed) - A freshly drafted chapter is never auto-approved:
\* immediately after generateNextChapter drafts a chapter its approved flag is
\* false, whatever state the chapter was in before the draft, a shell whose
\* userText was already saved included.
C22_DraftNeverApprovedAsClaimed ==
    (last.op = "next" /\ last.outcome = "ok") => ~Chapters[last.pos].approved

\* C22 (amended) - Immediately after generateNextChapter drafts a chapter, its
\* approved flag is the approval heuristic of the userText the chapter holds:
\* false for a chapter without saved user text, true for a shell whose saved
\* userText is longer than 50 characters after trimming.
C22_DraftApprovalFollowsUserText ==
    (last.op = "next" /\ last.outcome = "ok") =>
        /\ Chapters[last.pos].approved = ApprovalOf(Chapters[last.pos].userText)
        /\ ~Truthy(Chapters[last.pos].userText) => ~Chapters[last.pos].approved

\* a draft of a shell that held 51 characters of user text
C22_Witness ==
    /\ last.op = "next" /\ last.outcome = "ok"
    /\ Chapters[last.pos].draftText = "first draft"
    /\ Chapters[last.pos].userText = [pad |-> 0, body |-> 51]
    /\ Chapters[last.pos].approved

\* the chapterSummaries of the stored outline (none when the outline is absent)
StoredSummaries ==
    IF project.outline.present THEN project.outline.chapterSummaries ELSE <<>>

\* C23 - After generateOutline succeeds, the stored chapters are the new
\* outline's chapterSummaries one for one (same indices, hence the same set of
\* indices, with the summaries' titles), chapterContracts is the contract list
\* of the response the outline came from, and continuityLedger is
\* rebuildLedgerFromChapters of the reconciled chapter list.
C23_OutlineResult ==
    (last.op = "outline" /\ last.outcome = "ok") =>
        /\ { Chapters[n].index : n \in Positions }
             = { StoredSummaries[n].index : n \in 1..Len(StoredSummaries) }
        /\ Len(Chapters) = Len(StoredSummaries)
        /\ \A n \in Positions :
              /\ Chapters[n].index = StoredSummaries[n].index
              /\ Chapters[n].title = StoredSummaries[n].title
        /\ \E ro \in OutlineResponses :
              /\ ro.ok
              /\ ro.outline = project.outline
              /\ ro.chapterContracts = project.chapterContracts
        /\ project.continuityLedger
             = rebuildLedgerFromChapters(build.storage, project.chapters)

\* an outline of one chapter stored over a project that had drafted it
C23_Witness ==
    /\ last.op = "outline" /\ last.outcome = "ok"
    /\ Len(StoredSummaries) = 1
    /\ Chapters[1].draftText # ""
    /\ project.chapterContracts = <<Contract(StoredSummaries[1].index)>>

\* the core concepts a project is created with: none, or the user's
CoreConcepts == { "", "user concept" }

\* the brief responses, one whose brief proposes no core concept included
ConceptBriefResponses ==
    BriefResponses
    \cup { [ok |-> TRUE, brief |-> [present |-> TRUE, coreConcept |-> ""],
                         bible |-> [present |-> TRUE]] }

InitConcept ==
    /\ build \in [storage : StorageRevs, engine : EngineRevs]
    /\ project \in { createProject(c) : c \in CoreConcepts }
    /\ last = NoOp
    /\ prev = NoRewind
    /\ ops = 0

\* POST /api/projects/:id/brief-bible, the brief with or without a core concept
BriefBibleAny ==
    \E rb \in ConceptBriefResponses :
        Complete("brief", 0, generateBookBriefAndBible(project, rb),
                 ResponsesNote(project, BriefWellFormed(rb)))

NextConcept == BriefBibleAny \/ Outline \/ NextChapter

SpecConcept == InitConcept /\ [][NextConcept]_vars

\* C24 - Core-concept backfill: a successful generateBookBriefAndBible writes
\* inputs.coreConcept exactly when it was empty before and the brief it stored
\* proposes one, and then writes the proposal; a non-empty coreConcept is
\* changed by no stage; the brief stage changes no chapter, contract, outline
\* or ledger field.
C24_CoreConceptBackfill ==
    [][ /\ (last'.op = "brief" /\ last'.outcome = "ok" /\ ops' = ops + 1) =>
              /\ project'.inputs.coreConcept =
                    IF /\ project.inputs.coreConcept = ""
                       /\ project'.brief.present
                       /\ project'.brief.coreConcept # ""
                    THEN project'.brief.coreConcept
                    ELSE project.inputs.coreConcept
              /\ project'.chapters = project.chapters
              /\ project'.chapterContracts = project.chapterContracts
              /\ project'.outline = project.outline
              /\ project'.continuityLedger = project.continuityLedger
        /\ project.inputs.coreConcept # "" =>
              project'.inputs.coreConcept = project.inputs.coreConcept
      ]_vars

\* a brief proposing a concept stored in a project that has the user's concept
\* and a drafted chapter
C24_Witness ==
    /\ last.op = "brief" /\ last.outcome = "ok"
    /\ project.inputs.coreConcept = "user concept"
    /\ project.brief.present /\ project.brief.coreConcept = "model concept"
    /\ \E n \in Positions : Chapters[n].draftText # ""

(***************************************************************************)
(* The response parser.  Model output is a sequence of characters; the     *)
(* three backticks of a code fence are one element, so backticks occur     *)
(* only in threes.                                                         *)
(***************************************************************************)

\* the element standing for the three backticks
Fence == "fence"
Quote == "\""
Newline == "\n"

\* the attempts of the salvage loop: for (let i = 0; i < 30; i++)
MaxAttempts == 30

IsSpace(c) == c \in {" ", Newline}
IsDigit(c) == c \in {"1", "2"}

\* String.prototype.indexOf / lastIndexOf / slice / trim, positions from 0
indexOf(s, c) ==
    LET at == {i \in 1..Len(s) : s[i] = c}
    IN  IF at = {} THEN -1 ELSE (CHOOSE i \in at : \A j \in at : i <= j) - 1
lastIndexOf(s, c) ==
    LET at == {i \in 1..Len(s) : s[i] = c}
    IN  IF at = {} THEN -1 ELSE (CHOOSE i \in at : \A j \in at : i >= j) - 1
slice(s, from, to) == SubSeq(s, from + 1, to)
trim(s) ==
    LET solid == {i \in 1..Len(s) : ~IsSpace(s[i])}
    IN  IF solid = {} THEN <<>>
        ELSE SubSeq(s, CHOOSE i \in solid : \A j \in solid : i <= j,
                       CHOOSE i \in solid : \A j \in solid : i >= j)

\* text.replace(/```json/g, "") and, with ignoreCase, text.replace(/```json/gi, "")
RECURSIVE replaceTaggedFences(_, _, _)
replaceTaggedFences(s, ignoreCase, i) ==
    IF i > Len(s) THEN <<>>
    ELSE IF /\ s[i] = Fence
            /\ i + 4 <= Len(s)
            /\ \/ SubSeq(s, i + 1, i + 4) = <<"j", "s", "o", "n">>
               \/ /\ ignoreCase
                  /\ s[i + 1] \in {"j", "J"} /\ s[i + 2] \in {"s", "S"}
                  /\ s[i + 3] \in {"o", "O"} /\ s[i + 4] \in {"n", "N"}
         THEN replaceTaggedFences(s, ignoreCase, i + 5)
         ELSE <<s[i]>> \o replaceTaggedFences(s, ignoreCase, i + 1)

\* text.replace(/```/g, "")
replaceFences(s) == SelectSeq(s, LAMBDA c : c # Fence)

\* JSON values: numbers and strings keep their characters, an object is the
\* set of its <<key, value>> members, the last member of a key winning
NoValue == [t |-> "none", v |-> <<>>, m |-> {}]
NumberValue(digits) == [t |-> "number", v |-> digits, m |-> {}]
StringValue(chars) == [t |-> "string", v |-> chars, m |-> {}]
ObjectValue(members) == [t |-> "object", v |-> <<>>, m |-> members]

Unparsed == [ok |-> FALSE, val |-> NoValue, next |-> 0]
Parsed(val, next) == [ok |-> TRUE, val |-> val, next |-> next]

RECURSIVE skipWhitespace(_, _)
skipWhitespace(s, i) ==
    IF i <= Len(s) /\ IsSpace(s[i]) THEN skipWhitespace(s, i + 1) ELSE i

\* a string: a quote, characters other than quote and line break, a quote
parseString(s, i) ==
    LET closing == {j \in (i + 1)..Len(s) : s[j] = Quote}
        j == CHOOSE c \in closing : \A d \in closing : c <= d
    IN  IF i > Len(s) \/ s[i] # Quote \/ closing = {} THEN Unparsed
        ELSE IF \E k \in (i + 1)..(j - 1) : s[k] = Newline THEN Unparsed
        ELSE Parsed(StringValue(SubSeq(s, i + 1, j - 1)), j + 1)

\* a number: one or more digits
parseNumber(s, i) ==
    LET others == {j \in i..Len(s) : ~IsDigit(s[j])}
        end == IF others = {} THEN Len(s) + 1
               ELSE CHOOSE c \in others : \A d \in others : c <= d
    IN  IF end = i THEN Unparsed ELSE Parsed(NumberValue(SubSeq(s, i, end - 1)), end)

RECURSIVE parseValue(_, _)
RECURSIVE parseMembers(_, _, _)

\* the members of an object from position i, after those already read
parseMembers(s, i, members) ==
    LET key   == parseString(s, i)
        colon == skipWhitespace(s, key.next)
        value == parseValue(s, skipWhitespace(s, colon + 1))
        end   == skipWhitespace(s, value.next)
        read  == {m \in members : m[1] # key.val.v} \cup {<<key.val.v, value.val>>}
    IN  IF ~key.ok THEN Unparsed
        ELSE IF colon > Len(s) \/ s[colon] # ":" THEN Unparsed
        ELSE IF ~value.ok THEN Unparsed
        ELSE IF end > Len(s) THEN Unparsed
        ELSE IF s[end] = "}" THEN Parsed(ObjectValue(read), end + 1)
        ELSE IF s[end] = "," THEN parseMembers(s, skipWhitespace(s, end + 1), read)
        ELSE Unparsed

parseValue(s, i) ==
    IF i > Len(s) THEN Unparsed
    ELSE IF s[i] = Quote THEN parseString(s, i)
    ELSE IF IsDigit(s[i]) THEN parseNumber(s, i)
    ELSE IF s[i] = "{"
         THEN LET j == skipWhitespace(s, i + 1)
              IN  IF j <= Len(s) /\ s[j] = "}" THEN Parsed(ObjectValue({}), j + 1)
                  ELSE parseMembers(s, j, {})
    ELSE Unparsed

\* JSON.parse(text): one value with white space around it, or a SyntaxError
JSONparse(s) ==
    LET value == parseValue(s, skipWhitespace(s, 1))
    IN  IF value.ok /\ skipWhitespace(s, value.next) = Len(s) + 1
        THEN [ok |-> TRUE, val |-> value.val]
        ELSE [ok |-> FALSE, val |-> NoValue]

Returned(value) == [outcome |-> "ok", value |-> value]
Raised == [outcome |-> "error", value |-> NoValue]

\* the salvage loop handing back an empty object when it gives up
RECURSIVE salvage_defaultsToEmpty(_, _, _)
salvage_defaultsToEmpty(candidate, first, i) ==
    IF i >= MaxAttempts THEN Returned(ObjectValue({}))
    ELSE IF JSONparse(candidate).ok THEN Returned(JSONparse(candidate).val)
    ELSE LET idx == lastIndexOf(candidate, Newline)
             cut == IF idx > first
                    THEN trim(slice(candidate, 0, idx))
                    ELSE trim(slice(candidate, 0, Len(candidate) - 1))
         IN  IF Len(cut) <= 2 THEN Returned(ObjectValue({}))
             ELSE salvage_defaultsToEmpty(cut, first, i + 1)

\* the salvage loop of the first engine revision: parse the candidate, else
\* cut it at its last line break or by one character, trim, and try again
RECURSIVE salvage(_, _, _)
salvage(candidate, first, i) ==
    IF i >= MaxAttempts THEN Raised
    ELSE IF JSONparse(candidate).ok THEN Returned(JSONparse(candidate).val)
    ELSE LET idx == lastIndexOf(candidate, Newline)
             cut == IF idx > first
                    THEN trim(slice(candidate, 0, idx))
                    ELSE trim(slice(candidate, 0, Len(candidate) - 1))
         IN  IF Len(cut) <= 2 THEN Raised
             ELSE salvage(cut, first, i + 1)

\* safeJsonParse(text) of the first engine revision
safeJsonParse_engine_1(text) ==
    LET cleaned == trim(replaceFences(replaceTaggedFences(text, TRUE, 1)))
        first == indexOf(cleaned, "{")
        lastBrace == lastIndexOf(cleaned, "}")
    IN  IF JSONparse(cleaned).ok THEN Returned(JSONparse(cleaned).val)
        ELSE IF first = -1 \/ lastBrace = -1 \/ lastBrace <= first THEN Raised
        ELSE salvage(slice(cleaned, first, lastBrace + 1), first, 0)

\* safeJsonParse(text) of the second engine revision
safeJsonParse_engine_2(text) ==
    LET stripped == trim(replaceFences(replaceTaggedFences(text, FALSE, 1)))
    IN  IF JSONparse(text).ok THEN Returned(JSONparse(text).val)
        ELSE IF JSONparse(stripped).ok THEN Returned(JSONparse(stripped).val)
        ELSE Raised

safeJsonParse(rev, text) ==
    IF rev = "engine_1" THEN safeJsonParse_engine_1(text)
    ELSE safeJsonParse_engine_2(text)

\* the JSON objects the model emits:
\*   {"a":1}      an object over several lines with a nested object
\*   {"a":"s```n"}   (a string holding a code fence)      {"a":"}","b":1}
ObjectTexts ==
    { <<"{", Quote, "a", Quote, ":", "1", "}">>,
      <<"{", Newline, Quote, "a", Quote, ":", "1", ",", Newline,
        Quote, "b", Quote, ":", "{", Quote, "a", Quote, ":", "2", "}", Newline, "}">>,
      <<"{", Quote, "a", Quote, ":", Quote, "s", Fence, "n", Quote, "}">>,
      <<"{", Quote, "a", Quote, ":", Quote, "}", Quote, ",",
        Quote, "b", Quote, ":", "1", "}">> }

\* an opening fence: ```json, ``` or ```JSON, and the line break after it
OpeningFences ==
    { <<Fence, "j", "s", "o", "n", Newline>>,
      <<Fence, Newline>>,
      <<Fence, "J", "S", "O", "N", Newline>> }

\* a closing fence, on its own line or straight after the object
ClosingFences == { <<Newline, Fence>>, <<Fence>> }

\* text after the closing fence that is not JSON: a word, prose ending in a
\* brace, a line of 32 characters ending in a brace
TrailingTexts ==
    { <<"s", "o">>,
      <<" ", "s", "o", " ", "}">>,
      [i \in 1..32 |-> IF i = 32 THEN "}" ELSE "o"] }

ModelOutput(kind, object, text) == [kind |-> kind, object |-> object, text |-> text]

\* the object alone, or between fences
ExactOutputs ==
    { ModelOutput("exact", o, o) : o \in ObjectTexts }
    \cup { ModelOutput("exact", o, f \o o \o c) :
              o \in ObjectTexts, f \in OpeningFences, c \in ClosingFences }

\* the object between fences, followed by text that is not JSON
WrappedOutputs ==
    { ModelOutput("wrapped", o, f \o o \o c \o t) :
          o \in ObjectTexts, f \in OpeningFences, c \in ClosingFences,
          t \in TrailingTexts }

\* the object, with or without an opening fence, cut off before its closing
\* brace
TruncatedOutputs ==
    UNION { { ModelOutput("truncated", o, f \o SubSeq(o, 1, n)) :
                 n \in 1..(Len(o) - 1), f \in OpeningFences \cup {<<>>} } :
            o \in ObjectTexts }

ModelOutputs == ExactOutputs \cup WrappedOutputs \cup TruncatedOutputs

\* callModel has returned its text
InitParser ==
    /\ build \in [storage : StorageRevs, engine : EngineRevs]
    /\ project = createProject("")
    /\ \E out \in ModelOutputs :
          last = [op |-> "callModel", arg |-> out.text, outcome |-> "pending",
                  value |-> NoValue, note |-> [kind |-> out.kind, object |-> out.object]]
    /\ prev = NoRewind
    /\ ops = 0

\* const json = safeJsonParse(text)
ParseOutput ==
    /\ last.op = "callModel"
    /\ LET r == safeJsonParse(build.engine, last.arg)
       IN  last' = [last EXCEPT !.op = "safeJsonParse",
                                !.outcome = r.outcome, !.value = r.value]
    /\ ops' = ops + 1
    /\ UNCHANGED <<build, project, prev>>

NextParser == ParseOutput

SpecParser == InitParser /\ [][NextParser]_vars

\* the value the object the model emitted stands for
EmittedValue == JSONparse(last.note.object).val

\* C25 - Parser salvage of wrapped output: for model output made of one valid
\* JSON object between code-fence markers (language-tagged or bare) followed by
\* trailing non-JSON text, safeJsonParse returns exactly that object.  Stated
\* for objects that hold no code fence inside their strings.
C25_SalvagesWrappedOutput ==
    (/\ last.op = "safeJsonParse" /\ last.note.kind = "wrapped"
     /\ \A i \in 1..Len(last.note.object) : last.note.object[i] # Fence) =>
        /\ last.outcome = "ok"
        /\ last.value = EmittedValue

\* the top-level keys of an object value
KeysOf(value) == { m[1] : m \in value.m }

\* C26 - Parser on truncated output: for model output that is a JSON object
\* cut off before its closing brace, safeJsonParse raises an error or returns
\* an object; it never returns a value that lacks a top-level key of the
\* object the model was emitting.
C26_TruncatedOutput ==
    (last.op = "safeJsonParse" /\ last.note.kind = "truncated") =>
        \/ last.outcome = "error"
        \/ /\ last.outcome = "ok"
           /\ last.value.t = "object"
           /\ KeysOf(EmittedValue) \subseteq KeysOf(last.value)

\* the first revision has gone through its salvage loop on a truncated object
\* that holds a complete nested object, and raised
C26_Witness ==
    /\ last.op = "safeJsonParse" /\ last.note.kind = "truncated"
    /\ build.engine = "engine_1"
    /\ lastIndexOf(last.arg, "}") > indexOf(last.arg, "{")
    /\ Len(last.arg) > 20
    /\ last.outcome = "error"

\* C27 - Parser only narrows: whenever safeJsonParse returns a value, the
\* value is the parse of a contiguous span of the raw model output, nothing
\* inside the span altered; the strings inside the returned value hold what the
\* model emitted.
C27_ParserOnlyNarrows ==
    (last.op = "safeJsonParse" /\ last.outcome = "ok") =>
        \E i \in 1..Len(last.arg), j \in 1..Len(last.arg) :
            /\ i <= j
            /\ JSONparse(SubSeq(last.arg, i, j)).ok
            /\ JSONparse(SubSeq(last.arg, i, j)).val = last.value

(***************************************************************************)
(* Provenance, interleaved writes and the rewind round trip                *)
(***************************************************************************)

\* the sources a stored continuity may carry
Sources == { "model", "model-regenerate", "user" }

\* C28 - Provenance marker: in every reachable state each non-null chapter
\* continuity carries a source among "model", "model-regenerate" and "user";
\* the continuity stored by generateNextChapter is tagged "model" and the one
\* stored by regenerateChapter is tagged "model-regenerate".
C28_ProvenanceMarker ==
    /\ \A n \in Positions :
          Chapters[n].continuity # NullContinuity =>
              Chapters[n].continuity.source \in Sources
    /\ (last.op = "next" /\ last.outcome = "ok") =>
          Chapters[last.pos].continuity.source = "model"
    /\ (last.op = "regenerate" /\ last.outcome = "ok") =>
          Chapters[last.pos].continuity.source = "model-regenerate"

\* the requests two clients send for one project: a stage, an inputs patch or
\* a text edit of chapter 0
WriteRequest(kind, total, indices, text) ==
    [kind |-> kind, total |-> total, indices |-> indices, text |-> text]

WriteRequests ==
    { WriteRequest("brief", 0, <<>>, NoText) }
    \cup { WriteRequest("outline", 0, l, NoText) : l \in { <<0>>, <<1, 0>> } }
    \cup { WriteRequest("inputs", total, <<>>, NoText) : total \in {1, 2} }
    \cup { WriteRequest("edits", 0, <<>>, t) : t \in UserTexts }

WellFormedBrief == CHOOSE r \in BriefResponses : BriefWellFormed(r)

\* what the request computes from the project it read
Computes(b, snapshot, rq) ==
    IF rq.kind = "brief" THEN generateBookBriefAndBible(snapshot, WellFormedBrief)
    ELSE IF rq.kind = "outline"
         THEN generateOutline(b, snapshot, WellFormedBrief, OutlineOf(rq.indices))
    ELSE IF rq.kind = "inputs" THEN updateProjectInputs(b, snapshot, rq.total)
    ELSE saveUserEdits(b, snapshot, EditRequest(0, <<rq.text>>, <<>>, <<>>))

\* the stored document after the request's UPDATE: saveProject sets every
\* column; in src/lib/storage.js updateProjectInputs sets inputs only and
\* saveUserEdits sets chapter_contracts, chapters and continuity_ledger only
Persists(b, rq, stored, computed) ==
    IF b.storage = "storage_js" /\ rq.kind = "inputs"
    THEN [stored EXCEPT !.inputs = computed.inputs]
    ELSE IF b.storage = "storage_js" /\ rq.kind = "edits"
    THEN [stored EXCEPT !.chapterContracts = computed.chapterContracts,
                        !.chapters = computed.chapters,
                        !.continuityLedger = computed.continuityLedger]
    ELSE saveProject(computed)

Client(rq) == [request |-> rq, pc |-> "start",
               snapshot |-> createProject(""), doc |-> createProject("")]

\* an outlined project of two chapters and two requests about to run
InitWrites ==
    /\ build \in [storage : StorageRevs, engine : EngineRevs]
    /\ project = generateOutline(build, createProject(""), WellFormedBrief,
                                 OutlineOf(<<0, 1>>)).p
    /\ \E ra \in WriteRequests, rb \in WriteRequests :
          last = [op |-> "interleaved", a |-> Client(ra), b |-> Client(rb),
                  wrote |-> "none"]
    /\ prev = NoRewind
    /\ ops = 0

\* the request's SELECT (getProject)
Reads(x) ==
    /\ last[x].pc = "start"
    /\ last' = [last EXCEPT ![x].pc = "read", ![x].snapshot = project]
    /\ ops' = ops + 1
    /\ UNCHANGED <<build, project, prev>>

\* the request's UPDATE
Writes(x) ==
    /\ last[x].pc = "read"
    /\ LET computed == Computes(build, last[x].snapshot, last[x].request).p
       IN  /\ project' = Persists(build, last[x].request, project, computed)
           /\ last' = [last EXCEPT ![x].pc = "done", ![x].doc = computed,
                                   !.wrote = x]
    /\ ops' = ops + 1
    /\ UNCHANGED <<build, prev>>

NextWrites ==
    \/ \E x \in {"a", "b"} : Reads(x)
    \/ \E x \in {"a", "b"} : Writes(x)

SpecWrites == InitWrites /\ [][NextWrites]_vars

\* C29 - Last-write-wins per project: when two operations on one project
\* interleave (each reads it, then later writes), the persisted project equals
\* the full document computed by whichever wrote last; it is never a mixture of
\* fields from the two writers.
C29_LastWriteWins ==
    (last.op = "interleaved" /\ last.wrote # "none") =>
        project = last[last.wrote].doc

\* an outlined project of three chapters, none drafted; ledgers holds the
\* ledger stored after each draft, in drafting order
InitRoundTrip ==
    /\ build \in [storage : StorageRevs, engine : EngineRevs]
    /\ project = generateOutline(build, createProject(""), WellFormedBrief,
                                 OutlineOf(<<0, 1, 2>>)).p
    /\ last = [op |-> "outline", arg |-> 0, pos |-> 0, ledgers |-> <<>>]
    /\ prev = NoRewind
    /\ ops = 0

\* generateNextChapter drafting the next chapter from a well-formed response
DraftsNext ==
    \E rc \in {r \in ChapterResponses : ChapterWellFormed(r) /\ r.continuity.present} :
        LET res == generateNextChapter(build, project, WellFormedBrief,
                                       OutlineOf(<<0, 1, 2>>), rc)
        IN  /\ ops < MaxOps
            /\ res.outcome = "ok"
            /\ project' = res.p
            /\ last' = [op |-> "next", arg |-> 0, pos |-> res.pos,
                        ledgers |-> Append(last.ledgers, res.p.continuityLedger)]
            /\ ops' = ops + 1
            /\ UNCHANGED <<build, prev>>

\* clearAndRewindFromChapter(project, k), k the index of the chapter drafted last
RewindsLastDrafted ==
    /\ ops < MaxOps
    /\ last.op = "next"
    /\ LET k == project.chapters[last.pos].index
       IN  /\ project' = clearAndRewindFromChapter(build, project, k).p
           /\ last' = [op |-> "rewind", arg |-> k, pos |-> 0,
                       ledgers |-> SubSeq(last.ledgers, 1, k)]
    /\ ops' = ops + 1
    /\ UNCHANGED <<build, prev>>

NextRoundTrip == DraftsNext \/ RewindsLastDrafted

SpecRoundTrip == InitRoundTrip /\ [][NextRoundTrip]_vars

\* C30 - Rewind round trip: from an outlined project with no drafts, after
\* chapters 0..k are drafted in order with generateNextChapter and
\* clearAndRewindFromChapter(project, k) is called, the stored ledger equals the
\* ledger stored right after chapter k-1 was drafted, the empty ledger when
\* k = 0.
C30_RewindRoundTrip ==
    last.op = "rewind" =>
        project.continuityLedger =
            IF last.arg = 0 THEN defaultLedger ELSE last.ledgers[last.arg]

(***************************************************************************)
(* Ledger consistency, in-flight generation, deletion                      *)
(***************************************************************************)

\* C31 - Ledger consistency invariant: after every completed operation in any
\* sequence of generateOutline, generateNextChapter, regenerateChapter,
\* saveUserEdits (text or continuity override) and clearAndRewindFromChapter,
\* the stored continuityLedger equals rebuildLedgerFromChapters(stored
\* chapters).
C31_LedgerConsistency ==
    (last.op \in {"outline", "next", "regenerate", "edits", "rewind"}
     /\ last.outcome \in {"ok", "noop"}) =>
        project.continuityLedger
            = rebuildLedgerFromChapters(build.storage, project.chapters)

\* the chapter responses of the drafts made before the calls modelled here,
\* and of the generation call in flight
EarlierResponse == CHOOSE r \in ChapterResponses : r.ok /\ r.prose = "first draft"
InFlightResponse == CHOOSE r \in ChapterResponses : r.ok /\ r.prose = "second draft"

\* an UPDATE projects ... WHERE id = $1 that sets every column to doc inserting
\* the row when there is none
UpdateWhereId_insertsMissing(row, doc) == [exists |-> TRUE, doc |-> doc]

\* UPDATE projects ... WHERE id = $1 setting every column to doc: a row that
\* does not exist is not written
UpdateWhereId(row, doc) ==
    IF row.exists THEN [exists |-> TRUE, doc |-> doc] ELSE row

\* an outlined project of two chapters with none, the first or both drafted
OutlinedProject(b) ==
    generateOutline(b, createProject(""), WellFormedBrief, OutlineOf(<<0, 1>>)).p
DraftedOnce(b, p) ==
    generateNextChapter(b, p, WellFormedBrief, OutlineOf(<<0, 1>>), EarlierResponse).p
StartingProjects(b) ==
    { OutlinedProject(b), DraftedOnce(b, OutlinedProject(b)),
      DraftedOnce(b, DraftedOnce(b, OutlinedProject(b))) }

\* the generation calls: generateNextChapter, regenerateChapter(id, 0 or 1)
Generation(kind, index) ==
    [kind |-> kind, index |-> index, pc |-> "start", outcome |-> "",
     snapshot |-> createProject("")]
Generations ==
    { Generation("next", 0) } \cup { Generation("regenerate", i) : i \in ChapterIndices }

\* what the generation call computes from the project it read
Generates(b, g) ==
    IF g.kind = "next"
    THEN generateNextChapter(b, g.snapshot, WellFormedBrief, OutlineOf(<<0, 1>>),
                             InFlightResponse)
    ELSE regenerateChapter(b, g.snapshot, g.index, InFlightResponse)

NoUserOp == [present |-> FALSE, index |-> 0, text |-> NoText, during |-> FALSE]

\* a stored project, a generation call about to start, nothing done by the
\* user yet
InitInFlight ==
    /\ build \in [storage : StorageRevs, engine : EngineRevs]
    /\ project \in StartingProjects(build)
    /\ \E g \in Generations :
          last = [op |-> "in-flight", g |-> g, exists |-> TRUE, deleted |-> FALSE,
                  edit |-> NoUserOp, rewind |-> NoUserOp]
    /\ prev = NoRewind
    /\ ops = 0

\* const project = await getProject(projectId); if (!project) throw ...
GenerationReads ==
    /\ last.g.pc = "start"
    /\ last' = IF last.exists
               THEN [last EXCEPT !.g.pc = "read", !.g.snapshot = project]
               ELSE [last EXCEPT !.g.pc = "done", !.g.outcome = "not-found"]
    /\ ops' = ops + 1
    /\ UNCHANGED <<build, project, prev>>

\* the model has answered: the call changes its copy and saves it
GenerationSaves ==
    /\ last.g.pc = "read"
    /\ LET res == Generates(build, last.g)
           row == IF res.outcome = "ok"
                  THEN UpdateWhereId([exists |-> last.exists, doc |-> project], res.p)
                  ELSE [exists |-> last.exists, doc |-> project]
       IN  /\ project' = row.doc
           /\ last' = [last EXCEPT !.g.pc = "done", !.g.outcome = res.outcome,
                                   !.exists = row.exists]
    /\ ops' = ops + 1
    /\ UNCHANGED <<build, prev>>

\* PUT .../edits completes: the user's text for the chapter with index i
UserSavesEdits ==
    \E i \in ChapterIndices, t \in UserTexts \ {NoText} :
        LET res == saveUserEdits(build, project, EditRequest(i, <<t>>, <<>>, <<>>))
        IN  /\ last.exists /\ ~last.edit.present
            /\ FirstWithIndex(project.chapters, i) # 0
            /\ res.outcome = "ok"
            /\ project' = res.p
            /\ last' = [last EXCEPT !.edit = [present |-> TRUE, index |-> i, text |-> t,
                                              during |-> last.g.pc = "read"]]
            /\ ops' = ops + 1
            /\ UNCHANGED <<build, prev>>

\* POST .../chapters/rewind completes
UserRewinds ==
    \E k \in ChapterIndices :
        /\ last.exists /\ ~last.rewind.present
        /\ project' = clearAndRewindFromChapter(build, project, k).p
        /\ last' = [last EXCEPT !.rewind = [present |-> TRUE, index |-> k, text |-> NoText,
                                            during |-> last.g.pc = "read"]]
        /\ ops' = ops + 1
        /\ UNCHANGED <<build, prev>>

\* DELETE /api/projects/:id completes
UserDeletes ==
    /\ last.exists
    /\ last' = [last EXCEPT !.exists = FALSE, !.deleted = TRUE]
    /\ ops' = ops + 1
    /\ UNCHANGED <<build, project, prev>>

NextInFlight ==
    \/ GenerationReads
    \/ GenerationSaves
    \/ UserSavesEdits
    \/ UserRewinds
    \/ UserDeletes

SpecInFlight == InitInFlight /\ [][NextInFlight]_vars

\* C32 - User edits survive concurrent generation: if saveUserEdits for chapter
\* i completes while a generateNextChapter or regenerateChapter call on the same
\* project is between its read of the project and its save, then after both
\* operations have completed chapter i's stored userText is the text the user
\* saved.  Stated for runs without a rewind or a deletion.
C32_EditsSurviveGeneration ==
    (/\ last.g.pc = "done" /\ last.g.outcome = "ok"
     /\ last.edit.present /\ last.edit.during
     /\ ~last.rewind.present /\ last.exists) =>
        /\ FirstWithIndex(project.chapters, last.edit.index) # 0
        /\ project.chapters[FirstWithIndex(project.chapters, last.edit.index)].userText
             = last.edit.text

\* C33 - Rewind is not undone by an in-flight generation: if
\* clearAndRewindFromChapter(project, k) completes while a generateNextChapter
\* call that read the project before the rewind is waiting for the model, then
\* after the generation call has saved, no chapter with index >= k holds a draft
\* text from before the rewind, and the ledger's timeline holds no more events
\* than the stored chapters assert.  Stated for runs without an edit or a
\* deletion.
C33_RewindSurvivesGeneration ==
    (/\ last.g.kind = "next" /\ last.g.pc = "done" /\ last.g.outcome = "ok"
     /\ last.rewind.present /\ last.rewind.during
     /\ ~last.edit.present /\ last.exists) =>
        /\ \A n \in Positions :
              Chapters[n].index >= last.rewind.index =>
                  Chapters[n].draftText # EarlierResponse.prose
        /\ Len(project.continuityLedger.timeline) <= Len(EventsOf(Chapters))

\* C34 - A deleted project stays deleted: once deleteProject(id) has completed,
\* no later step of any operation, the save of a generation call that read the
\* project before the deletion included, makes getProject(id) return a project
\* again.
C34_DeletedStaysDeleted ==
    last.deleted => ~last.exists

\* a generation call that read the project before it was deleted has saved
C34_Witness ==
    /\ last.deleted /\ ~last.exists
    /\ last.g.pc = "done" /\ last.g.outcome = "ok"

(***************************************************************************)
(* Outline regeneration, composed rewinds, rebuild order, progress         *)
(***************************************************************************)

\* the orders in which a new outline may list the chapters 0, 1, 2
SameIndexLists == { <<0, 1, 2>>, <<1, 0, 2>>, <<2, 1, 0>> }

\* every drafted chapter follows drafted chapters only, by index
DraftedInIndexOrder(chapters) ==
    \A n, m \in 1..Len(chapters) :
        (chapters[n].draftText # "" /\ chapters[m].index < chapters[n].index)
            => chapters[m].draftText # ""

\* generateOutline on the outlined project, the new outline naming the same
\* chapter indices
OutlinesAgain ==
    \E l \in SameIndexLists :
        LET res == generateOutline(build, project, WellFormedBrief, OutlineOf(l))
        IN  /\ ops < MaxOps
            /\ res.outcome = "ok"
            /\ project' = res.p
            /\ last' = [op |-> "outline-again", arg |-> 0, pos |-> 0,
                        ledgers |-> last.ledgers]
            /\ ops' = ops + 1
            /\ UNCHANGED <<build, prev>>

NextReoutline == DraftsNext \/ OutlinesAgain

SpecReoutline == InitRoundTrip /\ [][NextReoutline]_vars

\* C35 - Outline regeneration keeps the ledger: when generateOutline runs on a
\* project whose chapters were drafted in index order by generateNextChapter
\* and the new chapterSummaries list has the same set of indices as the stored
\* chapters, the stored continuityLedger after the call equals the one before.
C35_OutlineKeepsLedger ==
    [][ (last'.op = "outline-again" /\ ops' = ops + 1
         /\ DraftedInIndexOrder(project.chapters)) =>
            project'.continuityLedger = project.continuityLedger ]_vars

\* outlined projects of two chapters, stored in either array order, with
\* none, one or both chapters drafted
RewindableProjects(b) ==
    UNION { LET outlined == generateOutline(b, createProject(""), WellFormedBrief,
                                            OutlineOf(l)).p
                once == generateNextChapter(b, outlined, WellFormedBrief, OutlineOf(l),
                                            EarlierResponse).p
                twice == generateNextChapter(b, once, WellFormedBrief, OutlineOf(l),
                                             InFlightResponse).p
            IN  { outlined, once, twice } : l \in { <<0, 1>>, <<1, 0>> } }

\* original is the project before the first rewind
InitRewinds ==
    /\ build \in [storage : StorageRevs, engine : EngineRevs]
    /\ project \in RewindableProjects(build)
    /\ last = [op |-> "none", arg |-> 0, first |-> 0, original |-> project]
    /\ prev = NoRewind
    /\ ops = 0

\* clearAndRewindFromChapter(id, k)
RewindsFirst ==
    \E k \in RewindIndices :
        /\ last.op = "none"
        /\ project' = clearAndRewindFromChapter(build, project, k).p
        /\ last' = [last EXCEPT !.op = "rewind", !.arg = k, !.first = k]
        /\ ops' = ops + 1
        /\ UNCHANGED <<build, prev>>

\* clearAndRewindFromChapter(id, j) after it
RewindsAgain ==
    \E j \in RewindIndices :
        /\ last.op = "rewind"
        /\ project' = clearAndRewindFromChapter(build, project, j).p
        /\ last' = [last EXCEPT !.op = "rewind-again", !.arg = j]
        /\ ops' = ops + 1
        /\ UNCHANGED <<build, prev>>

NextRewinds == RewindsFirst \/ RewindsAgain

SpecRewinds == InitRewinds /\ [][NextRewinds]_vars

\* C36 - Rewinds compose to the lower index: for all j <= k,
\* clearAndRewindFromChapter(project, k) followed by
\* clearAndRewindFromChapter(project, j) leaves the same chapters, contracts
\* and ledger as clearAndRewindFromChapter(project, j) alone (so rewinding
\* twice to one index equals rewinding once), and a rewind never changes
\* inputs, brief, bible or outline.
C36_RewindsCompose ==
    /\ (last.op = "rewind-again" /\ last.arg <= last.first) =>
          LET alone == clearAndRewindFromChapter(build, last.original, last.arg).p
          IN  /\ project.chapters = alone.chapters
              /\ project.chapterContracts = alone.chapterContracts
              /\ project.continuityLedger = alone.continuityLedger
    /\ last.op \in {"rewind", "rewind-again"} =>
          /\ project.inputs = last.original.inputs
          /\ project.brief = last.original.brief
          /\ project.bible = last.original.bible
          /\ project.outline = last.original.outline

\* both chapters were drafted; a rewind to 1, then a rewind to 0
C36_Witness ==
    /\ last.op = "rewind-again" /\ last.first = 1 /\ last.arg = 0
    /\ \A n \in 1..Len(last.original.chapters) :
          last.original.chapters[n].draftText # ""
    /\ Len(last.original.chapters) = 2

\* the same chapters in the opposite array order
Reversed(chapters) == [n \in 1..Len(chapters) |-> chapters[Len(chapters) + 1 - n]]

\* two stored chapters, their indices as an outline response may give them
InitPermuted ==
    /\ build \in [storage : StorageRevs, engine : EngineRevs]
    /\ \E a, b \in LedgerContinuities, i, j \in ChapterIndices :
          project = [createProject("") EXCEPT
                        !.chapters = <<ChapterWith(i, a), ChapterWith(j, b)>>]
    /\ last = [op |-> "none", given |-> defaultLedger, permuted |-> defaultLedger]
    /\ prev = NoRewind
    /\ ops = 0

\* rebuildLedgerFromChapters(chapters) for the array as stored and for its
\* other permutation
RebuildsPermuted ==
    /\ last.op = "none"
    /\ last' = [op |-> "rebuild",
                given |-> rebuildLedgerFromChapters(build.storage, Chapters),
                permuted |-> rebuildLedgerFromChapters(build.storage, Reversed(Chapters))]
    /\ project' = [project EXCEPT
                      !.continuityLedger =
                          rebuildLedgerFromChapters(build.storage, Chapters)]
    /\ ops' = ops + 1
    /\ UNCHANGED <<build, prev>>

NextPermuted == RebuildsPermuted

SpecPermuted == InitPermuted /\ [][NextPermuted]_vars

\* C37 - Rebuild is order-independent: rebuildLedgerFromChapters returns the
\* same ledger for every permutation of the same chapter list.
C37_RebuildOrderIndependent ==
    last.op = "rebuild" => last.given = last.permuted

\* the continuities merged one after the other into a ledger
RECURSIVE MergeAll(_, _)
MergeAll(ledger, continuities) ==
    IF continuities = <<>> THEN ledger
    ELSE MergeAll(mergeContinuityLedger(ledger, Head(continuities)), Tail(continuities))

\* an outlined project, its shells as the outline response listed them; drafts
\* holds the positions drafted, in drafting order; lenient tells whether a
\* response without prose has been stored
InitDrafting ==
    /\ build \in [storage : StorageRevs, engine : EngineRevs]
    /\ \E l \in OutlineIndexLists :
          project = generateOutline(build, createProject(""), WellFormedBrief,
                                    OutlineOf(l)).p
    /\ last = [op |-> "outline", outcome |-> "ok", pos |-> 0, drafts |-> <<>>,
               lenient |-> FALSE, before |-> project]
    /\ prev = NoRewind
    /\ ops = 0

\* POST /api/projects/:id/chapters/next, whatever the model returns
DraftsAny ==
    \E rc \in ChapterResponses :
        LET res == generateNextChapter(build, project, WellFormedBrief,
                                       OutlineOf(<<0, 1>>), rc)
        IN  /\ ops < MaxOps
            /\ project' = res.p
            /\ last' = [op |-> "next", outcome |-> res.outcome, pos |-> res.pos,
                        drafts |-> IF res.outcome = "ok" /\ rc.prose # ""
                                   THEN Append(last.drafts, res.pos) ELSE last.drafts,
                        lenient |-> last.lenient \/ (res.outcome = "ok" /\ rc.prose = ""),
                        before |-> project]
            /\ ops' = ops + 1
            /\ UNCHANGED <<build, prev>>

NextDrafting == DraftsAny

SpecDrafting == InitDrafting /\ [][NextDrafting]_vars

\* C38 (as claimed) - Drafting makes progress: each successful
\* generateNextChapter call that finds an undrafted chapter leaves that chapter
\* with non-empty draftText.
C38_DraftingProgressAsClaimed ==
    (last.op = "next" /\ last.outcome = "ok" /\ last.pos # 0) =>
        Chapters[last.pos].draftText # ""

\* C38 (amended) - Drafting makes progress and terminates: on a project whose
\* outline has N chapter shells, as long as every response stored carried
\* prose, each successful generateNextChapter call that finds an undrafted
\* chapter leaves that chapter, and no other, newly drafted and merges its
\* continuity into the ledger exactly once; so after N such calls every chapter
\* is drafted, and a call is a no-op leaving the project unchanged exactly when
\* every chapter was drafted before it.
C38_DraftingProgress ==
    ~last.lenient =>
        /\ \A n \in Positions :
              (Chapters[n].draftText # "") <=> (\E i \in 1..Len(last.drafts) : last.drafts[i] = n)
        /\ \A i, j \in 1..Len(last.drafts) : last.drafts[i] = last.drafts[j] => i = j
        /\ project.continuityLedger
             = MergeAll(defaultLedger,
                        [i \in 1..Len(last.drafts) |-> Chapters[last.drafts[i]].continuity])
        /\ (last.op = "next" /\ last.outcome = "ok") =>
              Chapters[last.pos].draftText # ""
        /\ last.op = "next" =>
              /\ (last.outcome = "noop") <=>
                    (\A n \in 1..Len(last.before.chapters) :
                        last.before.chapters[n].draftText # "")
              /\ last.outcome = "noop" => project = last.before

\* both shells were drafted by two calls; the third call was a no-op
C38_Witness ==
    /\ last.op = "next" /\ last.outcome = "noop" /\ ~last.lenient
    /\ Len(last.drafts) = 2 /\ Len(Chapters) = 2
    /\ \A n \in Positions : Chapters[n].draftText # ""

(***************************************************************************)
(* The browser client: the chapter selected and the requests it sends      *)
(***************************************************************************)

\* state.currentChapterIndex: null, or the index of the chapter selected
NoChapterSelected == [selected |-> FALSE, index |-> 0]
Selected(i) == [selected |-> TRUE, index |-> i]

\* !idx for idx = state.currentChapterIndex: true of null and of 0
Not(idx) == ~idx.selected \/ idx.index = 0

NoRequest == [sent |-> FALSE, method |-> "", path |-> "", index |-> 0]
Request(method, path, i) == [sent |-> TRUE, method |-> method, path |-> path, index |-> i]

\* a project has been loaded and its chapter list rendered: the first drafted
\* chapter, if any, is selected
ChapterSelectedOnRender(chapters) ==
    LET ordered == SortByIndex(chapters)
        at == { n \in 1..Len(ordered) : ordered[n].draftText # "" }
    IN  IF at = {} THEN NoChapterSelected
        ELSE Selected(ordered[CHOOSE n \in at : \A m \in at : n <= m].index)

InitClient ==
    /\ build \in [storage : StorageRevs, engine : EngineRevs]
    /\ project \in RewindableProjects(build)
    /\ last = [op |-> "render", current |-> ChapterSelectedOnRender(project.chapters),
               passed |-> FALSE, confirmed |-> FALSE, request |-> NoRequest]
    /\ prev = NoRewind
    /\ ops = 0

\* a click on a chapter's button in the list
SelectsChapter ==
    \E n \in Positions :
        /\ last' = [op |-> "select", current |-> Selected(Chapters[n].index),
                    passed |-> FALSE, confirmed |-> FALSE, request |-> NoRequest]
        /\ UNCHANGED <<build, project, prev, ops>>

\* saveChapterEdits()
SavesChapterEdits ==
    /\ last' = [op |-> "save-edits", current |-> last.current,
                passed |-> ~Not(last.current), confirmed |-> TRUE,
                request |-> IF Not(last.current) THEN NoRequest
                            ELSE Request("PUT", "edits", last.current.index)]
    /\ UNCHANGED <<build, project, prev, ops>>

\* regenerateChapter(), the user confirming or cancelling
RegeneratesChapter ==
    \E ok \in BOOLEAN :
        /\ last' = [op |-> "regenerate", current |-> last.current,
                    passed |-> ~Not(last.current), confirmed |-> ok,
                    request |-> IF Not(last.current) \/ ~ok THEN NoRequest
                                ELSE Request("POST", "regenerate", last.current.index)]
        /\ UNCHANGED <<build, project, prev, ops>>

NextClient == SelectsChapter \/ SavesChapterEdits \/ RegeneratesChapter

SpecClient == InitClient /\ [][NextClient]_vars

\* C39 - Every chapter is actionable from the UI: for every chapter index
\* present in the loaded project, index 0 included, selecting that chapter and
\* invoking save-edits or regenerate passes the 'chapter selected' check and
\* issues the corresponding API request for that index (for regenerate, once
\* the user has confirmed).
C39_EveryChapterActionable ==
    (last.op \in {"save-edits", "regenerate"} /\ last.current.selected) =>
        /\ last.passed
        /\ last.confirmed =>
              /\ last.request.sent
              /\ last.request.index = last.current.index
              /\ last.request.path = (IF last.op = "save-edits" THEN "edits" ELSE "regenerate")

====
